---- MODULE Spec2Model ----
(***************************************************************************)
(* A model of valnk's single-table key scheme and cursor pagination:       *)
(*   data/model/{entity,submission,comment,reply}.rs  -- key encoder       *)
(*   data/api/cursor.rs                               -- cursor codec      *)
(*   data/api/submission.rs                           -- create_item and   *)
(*                                                       list_items_by_topic*)
(* Strings are sequences of one-character strings so that formatting,      *)
(* prefix tests and byte-lexicographic comparison are computed.            *)
(***************************************************************************)
EXTENDS Integers, Sequences, FiniteSets, TLC

VARIABLES table, resp, scan, enc, codec

vars == <<table, resp, scan, enc, codec>>

\* Option<T>: None, or Some(v) with the value at index 1.
None == <<>>
Some(v) == <<v>>
IsSome(o) == o # <<>>

Max(a, b) == IF a >= b THEN a ELSE b

(***************************************************************************)
(* Characters and byte order.                                              *)
(***************************************************************************)

\* The characters the model compares, in ascending code-point order.
AsciiOrder ==
    <<"\n", " ", "\"", "#", ",", "-",
      "0", "1", "2", "3", "4", "5", "6", "7", "8", "9", ":",
      "A", "B", "C", "D", "E", "F", "G", "H", "I", "J", "K", "L", "M",
      "N", "O", "P", "Q", "R", "S", "T", "U", "V", "W", "X", "Y", "Z",
      "\\", "_",
      "a", "b", "c", "d", "e", "f", "g", "h", "i", "j", "k", "l", "m",
      "n", "o", "p", "q", "r", "s", "t", "u", "v", "w", "x", "y", "z",
      "{", "}">>

Code(c) == CHOOSE i \in 1..Len(AsciiOrder) : AsciiOrder[i] = c

DigitChars == <<"0", "1", "2", "3", "4", "5", "6", "7", "8", "9">>

IsDigit(c) == \E i \in 1..10 : DigitChars[i] = c

\* str::cmp / DynamoDB's ordering of S attributes: byte-lexicographic.
RECURSIVE StrLt(_, _)
StrLt(a, b) ==
    IF b = <<>> THEN FALSE
    ELSE IF a = <<>> THEN TRUE
    ELSE IF a[1] # b[1] THEN Code(a[1]) < Code(b[1])
    ELSE StrLt(Tail(a), Tail(b))

\* begins_with(s, pfx)
BeginsWith(s, pfx) ==
    /\ Len(pfx) <= Len(s)
    /\ SubSeq(s, 1, Len(pfx)) = pfx

(***************************************************************************)
(* i64 values.  TLC integers are 32 bits wide, so an i64 is kept as sign   *)
(* and magnitude hi * 10^9 + lo.                                           *)
(***************************************************************************)

Limb == 1000000000

I64(n) == [neg |-> n < 0, hi |-> 0, lo |-> IF n < 0 THEN 0 - n ELSE n]

I64Wide(neg, hi, lo) == [neg |-> neg /\ (hi # 0 \/ lo # 0), hi |-> hi, lo |-> lo]

MagLt(a, b) == a.hi < b.hi \/ (a.hi = b.hi /\ a.lo < b.lo)

\* a < b on i64
I64Lt(a, b) ==
    IF a.neg /\ ~b.neg THEN TRUE
    ELSE IF ~a.neg /\ b.neg THEN FALSE
    ELSE IF a.neg THEN MagLt(b, a)
    ELSE MagLt(a, b)

RECURSIVE Dec(_)
Dec(n) == IF n < 10 THEN <<DigitChars[n + 1]>>
          ELSE Dec(n \div 10) \o <<DigitChars[(n % 10) + 1]>>

Zeros(n) == [i \in 1..n |-> "0"]

\* A rendering that wraps at 10^9: the digits of the low limb only.
MagDigits_low_limb(x) == Dec(x.lo)

\* The decimal digits of the magnitude, as core::fmt renders them.
MagDigits(x) ==
    IF x.hi = 0 THEN Dec(x.lo)
    ELSE Dec(x.hi) \o Zeros(9 - Len(Dec(x.lo))) \o Dec(x.lo)

PAD_WIDTH == 10

\* format!("{n}") for an i64.
I64_to_string(x) ==
    (IF x.neg THEN <<"-">> ELSE <<>>) \o MagDigits(x)

Fmt010_unpadded(x) ==
    (IF x.neg THEN <<"-">> ELSE <<>>) \o MagDigits(x)

\* format!("{n:010}") for an i64: sign first, then zeros up to a total
\* width of 10, then all the digits (the width is a minimum).
Fmt010(x) ==
    LET sign == IF x.neg THEN <<"-">> ELSE <<>>
        digs == MagDigits(x)
    IN  sign \o Zeros(Max(0, PAD_WIDTH - Len(sign) - Len(digs))) \o digs

(***************************************************************************)
(* Key encoder: data/model/submission.rs, comment.rs, reply.rs             *)
(***************************************************************************)

SUBMISSION_TAG == <<"S", "U", "B", "M", "S">>
COMMENT_TAG == <<"C", "O", "M", "M", "T">>
TOPIC_TAG == <<"T", "O", "P", "I", "C">>
AUTHOR_TAG == <<"A", "U", "T", "H", "R">>
HASH == <<"#">>

Submission_PrimaryKey_new(id) ==
    [pk |-> SUBMISSION_TAG \o HASH \o id, sk |-> <<"A">>]

TopicIndexKey_pk(topic) == TOPIC_TAG \o HASH \o topic

TopicIndexKey_sk_prefix == SUBMISSION_TAG \o HASH

TopicIndexKey_sk_lower(score) ==
    <<"s", "u", "b", "m", "s", "#">> \o Fmt010(score)

TopicIndexKey_sk(score) == TopicIndexKey_sk_prefix \o Fmt010(score)

TopicIndexKey_new(topic, score) ==
    [pk |-> TopicIndexKey_pk(topic), sk |-> TopicIndexKey_sk(score)]

Submission_AuthorIndexKey_new(author_id, created_at) ==
    [pk |-> AUTHOR_TAG \o HASH \o author_id,
     sk |-> SUBMISSION_TAG \o HASH \o Fmt010(created_at)]

Comment_PrimaryKey_new_subms(id) ==
    [pk |-> SUBMISSION_TAG \o HASH \o id, sk |-> <<"A">>]

Comment_PrimaryKey_new(id) ==
    [pk |-> COMMENT_TAG \o HASH \o id, sk |-> <<"A">>]

SubmissionIndexKey_new(submission_id, score) ==
    [pk |-> SUBMISSION_TAG \o HASH \o submission_id,
     sk |-> COMMENT_TAG \o HASH \o Fmt010(score)]

Comment_AuthorIndexKey_new(author_id, created_at) ==
    [pk |-> AUTHOR_TAG \o HASH \o author_id,
     sk |-> COMMENT_TAG \o HASH \o Fmt010(created_at)]

REPLY_TAG == <<"R", "E", "P", "L", "Y">>

Reply_PrimaryKey_new_commt(id) ==
    [pk |-> COMMENT_TAG \o HASH \o id, sk |-> <<"A">>]

Reply_PrimaryKey_new(id) ==
    [pk |-> REPLY_TAG \o HASH \o id, sk |-> <<"A">>]

SubmissionCommentIndexKey_new(submission_id, comment_id, created_at) ==
    [pk |-> SUBMISSION_TAG \o HASH \o submission_id,
     sk |-> REPLY_TAG \o HASH \o comment_id \o HASH \o Fmt010(created_at)]

Reply_AuthorIndexKey_new_unpadded(author_id, created_at) ==
    [pk |-> AUTHOR_TAG \o HASH \o author_id,
     sk |-> REPLY_TAG \o HASH \o I64_to_string(created_at)]

Reply_AuthorIndexKey_new(author_id, created_at) ==
    [pk |-> AUTHOR_TAG \o HASH \o author_id,
     sk |-> REPLY_TAG \o HASH \o Fmt010(created_at)]

(***************************************************************************)
(* Entities: data/model/entity.rs, submission.rs                           *)
(***************************************************************************)

Ok(v) == [ok |-> TRUE, val |-> v]
Err(e) == [ok |-> FALSE, err |-> e]

\* EntityId::from
EntityId_from(id_str) ==
    IF Len(id_str) > 0 THEN Ok(id_str) ELSE Err("invalid EntityId: empty id")

Rep(c, n) == [i \in 1..n |-> c]

\* Uuid's Display: 32 hex digits, hyphens after the 8th, 12th, 16th and 20th.
Uuid_to_string(h) ==
    SubSeq(h, 1, 8) \o <<"-">> \o SubSeq(h, 9, 12) \o <<"-">> \o
    SubSeq(h, 13, 16) \o <<"-">> \o SubSeq(h, 17, 20) \o <<"-">> \o
    SubSeq(h, 21, 32)

\* EntityId::new, uuid being the value of Uuid::new_v4().
EntityId_new(uuid) == Uuid_to_string(uuid)

\* #[serde(rename_all = "snake_case")]
EntityType_Submission == <<"s", "u", "b", "m", "i", "s", "s", "i", "o", "n">>
EntityType_Comment == <<"c", "o", "m", "m", "e", "n", "t">>
EntityType_Reply == <<"r", "e", "p", "l", "y">>
EntityTypes == {EntityType_Submission, EntityType_Comment, EntityType_Reply}

\* SubmissionBuilder::new: every field unset.
SubmissionBuilder_new ==
    [id |-> None, author_id |-> None, topic |-> None, ranking_score |-> None,
     title |-> None, url |-> None, text |-> None,
     n_votes |-> None, n_comments |-> None,
     created_at |-> None, updated_at |-> None]

EmptyData_unknown(field) == [variant |-> "Unknown", field |-> field]

\* SubmissionBuildError / CommentBuildError / ReplyBuildError ::EmptyData(field)
EmptyData(field) == [variant |-> "EmptyData", field |-> field]

unwrap_or(opt, dflt) == IF IsSome(opt) THEN opt[1] ELSE dflt

\* SubmissionBuilder::build; fresh_id is the value of SubmissionId::new()
\* and now the value of Utc::now().
SubmissionBuilder_build(b, fresh_id, now) ==
    LET id == unwrap_or(b.id, fresh_id)
        created_at == unwrap_or(b.created_at, now)
        updated_at == unwrap_or(b.updated_at, now)
    IN  IF b.author_id = None THEN Err(EmptyData("author_id"))
        ELSE IF b.topic = None THEN Err(EmptyData("topic"))
        ELSE IF b.ranking_score = None THEN Err(EmptyData("ranking_score"))
        ELSE IF b.title = None THEN Err(EmptyData("title"))
        ELSE IF b.url = None THEN Err(EmptyData("url"))
        ELSE IF b.text = None THEN Err(EmptyData("text"))
        ELSE Ok([primary_key |-> Submission_PrimaryKey_new(id),
                 topic_key |-> TopicIndexKey_new(b.topic[1], b.ranking_score[1]),
                 author_key |-> Submission_AuthorIndexKey_new(b.author_id[1], created_at),
                 entity_type |-> EntityType_Submission,
                 id |-> id,
                 author_id |-> b.author_id[1],
                 topic |-> b.topic[1],
                 ranking_score |-> b.ranking_score[1],
                 title |-> b.title[1],
                 url |-> b.url[1],
                 text |-> b.text[1],
                 n_votes |-> unwrap_or(b.n_votes, 0),
                 n_comments |-> unwrap_or(b.n_comments, 0),
                 created_at |-> created_at,
                 updated_at |-> updated_at])

\* CommentBuilder::default()
CommentBuilder_new ==
    [id |-> None, submission_id |-> None, author_id |-> None, topic |-> None,
     ranking_score |-> None, text |-> None,
     n_likes |-> None, n_replies |-> None,
     created_at |-> None, updated_at |-> None]

CommentBuilder_build_reordered(b, fresh_id, now) ==
    LET id == unwrap_or(b.id, fresh_id)
        created_at == unwrap_or(b.created_at, now)
        updated_at == unwrap_or(b.updated_at, now)
    IN  IF b.author_id = None THEN Err(EmptyData("author_id"))
        ELSE IF b.submission_id = None THEN Err(EmptyData("submission_id"))
        ELSE IF b.ranking_score = None THEN Err(EmptyData("ranking_score"))
        ELSE IF b.text = None THEN Err(EmptyData("text"))
        ELSE Ok([primary_key |-> Comment_PrimaryKey_new(id),
                 submission_key |-> SubmissionIndexKey_new(b.submission_id[1],
                                                           b.ranking_score[1]),
                 author_key |-> Comment_AuthorIndexKey_new(b.author_id[1], created_at),
                 entity_type |-> EntityType_Comment,
                 id |-> id,
                 submission_id |-> b.submission_id[1],
                 author_id |-> b.author_id[1],
                 ranking_score |-> b.ranking_score[1],
                 text |-> b.text[1],
                 n_likes |-> unwrap_or(b.n_likes, 0),
                 n_replies |-> unwrap_or(b.n_replies, 0),
                 created_at |-> created_at,
                 updated_at |-> updated_at])

\* CommentBuilder::build
CommentBuilder_build(b, fresh_id, now) ==
    LET id == unwrap_or(b.id, fresh_id)
        created_at == unwrap_or(b.created_at, now)
        updated_at == unwrap_or(b.updated_at, now)
    IN  IF b.submission_id = None THEN Err(EmptyData("submission_id"))
        ELSE IF b.author_id = None THEN Err(EmptyData("author_id"))
        ELSE IF b.ranking_score = None THEN Err(EmptyData("ranking_score"))
        ELSE IF b.text = None THEN Err(EmptyData("text"))
        ELSE Ok([primary_key |-> Comment_PrimaryKey_new(id),
                 submission_key |-> SubmissionIndexKey_new(b.submission_id[1],
                                                           b.ranking_score[1]),
                 author_key |-> Comment_AuthorIndexKey_new(b.author_id[1], created_at),
                 entity_type |-> EntityType_Comment,
                 id |-> id,
                 submission_id |-> b.submission_id[1],
                 author_id |-> b.author_id[1],
                 ranking_score |-> b.ranking_score[1],
                 text |-> b.text[1],
                 n_likes |-> unwrap_or(b.n_likes, 0),
                 n_replies |-> unwrap_or(b.n_replies, 0),
                 created_at |-> created_at,
                 updated_at |-> updated_at])

\* ReplyBuilder::default()
ReplyBuilder_new ==
    [id |-> None, submission_id |-> None, comment_id |-> None,
     author_id |-> None, text |-> None,
     created_at |-> None, updated_at |-> None]

ReplyBuilder_build_stale(b, fresh_id, now) ==
    LET id == unwrap_or(b.id, fresh_id)
        created_at == unwrap_or(b.created_at, now)
        updated_at == unwrap_or(b.updated_at, now)
    IN  IF b.submission_id = None THEN Err(EmptyData("submission_id"))
        ELSE IF b.comment_id = None THEN Err(EmptyData("comment_id"))
        ELSE IF b.author_id = None THEN Err(EmptyData("author_id"))
        ELSE IF b.text = None THEN Err(EmptyData("text"))
        ELSE Ok([primary_key |-> Reply_PrimaryKey_new(id),
                 submission_comment_key |->
                     SubmissionCommentIndexKey_new(b.submission_id[1],
                                                   b.comment_id[1], created_at),
                 author_key |-> Reply_AuthorIndexKey_new(b.author_id[1], now),
                 entity_type |-> EntityType_Reply,
                 id |-> id,
                 submission_id |-> b.submission_id[1],
                 comment_id |-> b.comment_id[1],
                 author_id |-> b.author_id[1],
                 text |-> b.text[1],
                 created_at |-> created_at,
                 updated_at |-> updated_at])

\* ReplyBuilder::build
ReplyBuilder_build(b, fresh_id, now) ==
    LET id == unwrap_or(b.id, fresh_id)
        created_at == unwrap_or(b.created_at, now)
        updated_at == unwrap_or(b.updated_at, now)
    IN  IF b.submission_id = None THEN Err(EmptyData("submission_id"))
        ELSE IF b.comment_id = None THEN Err(EmptyData("comment_id"))
        ELSE IF b.author_id = None THEN Err(EmptyData("author_id"))
        ELSE IF b.text = None THEN Err(EmptyData("text"))
        ELSE Ok([primary_key |-> Reply_PrimaryKey_new(id),
                 submission_comment_key |->
                     SubmissionCommentIndexKey_new(b.submission_id[1],
                                                   b.comment_id[1], created_at),
                 author_key |-> Reply_AuthorIndexKey_new(b.author_id[1], created_at),
                 entity_type |-> EntityType_Reply,
                 id |-> id,
                 submission_id |-> b.submission_id[1],
                 comment_id |-> b.comment_id[1],
                 author_id |-> b.author_id[1],
                 text |-> b.text[1],
                 created_at |-> created_at,
                 updated_at |-> updated_at])

(***************************************************************************)
(* Raw items: maps from attribute name to AttributeValue (S or N).  An N   *)
(* attribute carries the decimal text of the number, as on the wire.  A    *)
(* DateTime<Utc> is kept as its                                            *)
(* timestamp() in seconds; chrono writes it as text, rendered here as the  *)
(* seconds followed by Z (the calendar fields are not expanded).           *)
(***************************************************************************)

RECURSIVE ParseNat(_)
ParseNat(s) ==
    IF s = <<>> THEN 0
    ELSE ParseNat(SubSeq(s, 1, Len(s) - 1)) * 10 + (Code(s[Len(s)]) - Code("0"))

\* Whether s is the decimal text of a u64.
U64_wellformed(s) ==
    /\ Len(s) >= 1
    /\ \A i \in 1..Len(s) : IsDigit(s[i])

\* Whether s is the decimal text of an i64.
I64_wellformed(s) ==
    /\ Len(s) >= 1
    /\ U64_wellformed(IF s[1] = "-" THEN Tail(s) ELSE s)

\* str::parse::<i64> of well-formed text.
I64_from_str(s) ==
    LET neg == s[1] = "-"
        digs == IF neg THEN Tail(s) ELSE s
        n == Len(digs)
    IN  IF n <= 9 THEN I64Wide(neg, 0, ParseNat(digs))
        ELSE I64Wide(neg, ParseNat(SubSeq(digs, 1, n - 9)),
                     ParseNat(SubSeq(digs, n - 8, n)))

DateTime_serialize(ts) == I64_to_string(ts) \o <<"Z">>

DateTime_wellformed(s) ==
    /\ Len(s) >= 2
    /\ s[Len(s)] = "Z"
    /\ I64_wellformed(SubSeq(s, 1, Len(s) - 1))

DateTime_deserialize(s) == I64_from_str(SubSeq(s, 1, Len(s) - 1))

AttrS(v) == [t |-> "S", v |-> v]
AttrN(v) == [t |-> "N", v |-> v]

A_PK == <<"P", "K">>
A_SK == <<"S", "K">>
A_GSI1_PK == <<"G", "S", "I", "1", "_", "P", "K">>
A_GSI1_SK == <<"G", "S", "I", "1", "_", "S", "K">>
A_GSI2_PK == <<"G", "S", "I", "2", "_", "P", "K">>
A_GSI2_SK == <<"G", "S", "I", "2", "_", "S", "K">>
A_entity_type ==
    <<"e", "n", "t", "i", "t", "y", "_", "t", "y", "p", "e">>
A_id ==
    <<"i", "d">>
A_author_id ==
    <<"a", "u", "t", "h", "o", "r", "_", "i", "d">>
A_topic ==
    <<"t", "o", "p", "i", "c">>
A_ranking_score ==
    <<"r", "a", "n", "k", "i", "n", "g", "_", "s", "c", "o", "r", "e">>
A_title ==
    <<"t", "i", "t", "l", "e">>
A_url ==
    <<"u", "r", "l">>
A_text ==
    <<"t", "e", "x", "t">>
A_n_votes ==
    <<"n", "_", "v", "o", "t", "e", "s">>
A_n_comments ==
    <<"n", "_", "c", "o", "m", "m", "e", "n", "t", "s">>
A_created_at ==
    <<"c", "r", "e", "a", "t", "e", "d", "_", "a", "t">>
A_updated_at ==
    <<"u", "p", "d", "a", "t", "e", "d", "_", "a", "t">>

\* A serialisation that writes the primary key only.
Submission_to_item_keys_only(subm) ==
    (A_PK :> AttrS(subm.primary_key.pk)) @@
    (A_SK :> AttrS(subm.primary_key.sk))

\* serde_dynamo::to_item(subm): the three key structs are flattened into the
\* item next to the data fields.
Submission_to_item(subm) ==
    (A_PK :> AttrS(subm.primary_key.pk)) @@
    (A_SK :> AttrS(subm.primary_key.sk)) @@
    (A_GSI1_PK :> AttrS(subm.topic_key.pk)) @@
    (A_GSI1_SK :> AttrS(subm.topic_key.sk)) @@
    (A_GSI2_PK :> AttrS(subm.author_key.pk)) @@
    (A_GSI2_SK :> AttrS(subm.author_key.sk)) @@
    (A_entity_type :> AttrS(subm.entity_type)) @@
    (A_id :> AttrS(subm.id)) @@
    (A_author_id :> AttrS(subm.author_id)) @@
    (A_topic :> AttrS(subm.topic)) @@
    (A_ranking_score :> AttrN(I64_to_string(subm.ranking_score))) @@
    (A_title :> AttrS(subm.title)) @@
    (A_url :> AttrS(subm.url)) @@
    (A_text :> AttrS(subm.text)) @@
    (A_n_votes :> AttrN(Dec(subm.n_votes))) @@
    (A_n_comments :> AttrN(Dec(subm.n_comments))) @@
    (A_created_at :> AttrS(DateTime_serialize(subm.created_at))) @@
    (A_updated_at :> AttrS(DateTime_serialize(subm.updated_at)))

SubmissionStrAttrs ==
    {A_PK, A_SK, A_GSI1_PK, A_GSI1_SK, A_GSI2_PK, A_GSI2_SK, A_entity_type,
     A_id, A_author_id, A_topic, A_title, A_url, A_text,
     A_created_at, A_updated_at}

SubmissionNumAttrs ==
    {A_ranking_score, A_n_votes, A_n_comments}

\* serde_dynamo::from_item::<Submission>: every field must be present with
\* the attribute type its Rust type reads; other attributes are ignored.
Submission_from_item(item) ==
    IF /\ (SubmissionStrAttrs \cup SubmissionNumAttrs) \subseteq DOMAIN item
       /\ \A a \in SubmissionStrAttrs : item[a].t = "S"
       /\ \A a \in SubmissionNumAttrs : item[a].t = "N"
       /\ item[A_entity_type].v \in EntityTypes
       /\ I64_wellformed(item[A_ranking_score].v)
       /\ U64_wellformed(item[A_n_votes].v)
       /\ U64_wellformed(item[A_n_comments].v)
       /\ DateTime_wellformed(item[A_created_at].v)
       /\ DateTime_wellformed(item[A_updated_at].v)
    THEN Ok([primary_key |-> [pk |-> item[A_PK].v, sk |-> item[A_SK].v],
             topic_key |-> [pk |-> item[A_GSI1_PK].v, sk |-> item[A_GSI1_SK].v],
             author_key |-> [pk |-> item[A_GSI2_PK].v, sk |-> item[A_GSI2_SK].v],
             entity_type |-> item[A_entity_type].v,
             id |-> item[A_id].v,
             author_id |-> item[A_author_id].v,
             topic |-> item[A_topic].v,
             ranking_score |-> I64_from_str(item[A_ranking_score].v),
             title |-> item[A_title].v,
             url |-> item[A_url].v,
             text |-> item[A_text].v,
             n_votes |-> ParseNat(item[A_n_votes].v),
             n_comments |-> ParseNat(item[A_n_comments].v),
             created_at |-> DateTime_deserialize(item[A_created_at].v),
             updated_at |-> DateTime_deserialize(item[A_updated_at].v)])
    ELSE Err("serde_dynamo")

Submission_from_items_skip(items) ==
    LET good == SelectSeq(items, LAMBDA x : Submission_from_item(x).ok)
    IN  Ok([i \in 1..Len(good) |-> Submission_from_item(good[i]).val])

\* serde_dynamo::from_items: the first item that fails fails the whole call.
Submission_from_items(items) ==
    IF \A i \in 1..Len(items) : Submission_from_item(items[i]).ok
    THEN Ok([i \in 1..Len(items) |-> Submission_from_item(items[i]).val])
    ELSE Err("serde_dynamo")

(***************************************************************************)
(* Cursor <-> raw position: data/api/cursor.rs                             *)
(***************************************************************************)

\* A conversion that takes the text of any attribute, whatever its type.
Cursor_try_from_any_type(raw) == Ok([k \in DOMAIN raw |-> raw[k].v])

\* impl TryFrom<HashMap<String, AttributeValue>> for Cursor:
\* serde_dynamo::from_item into HashMap<String, String>.
Cursor_try_from(raw) ==
    IF \A k \in DOMAIN raw : raw[k].t = "S"
    THEN Ok([k \in DOMAIN raw |-> raw[k].v])
    ELSE Err("serde_dynamo")

\* impl TryFrom<Cursor> for HashMap<String, AttributeValue>:
\* serde_dynamo::to_item of a map of strings.
Cursor_try_into(cur) == Ok([k \in DOMAIN cur |-> AttrS(cur[k])])

\* serde_json's escapes inside a string, for the characters of the
\* model (tokens of the model hold no \b and no \u escape).
JsonEscapeChar_raw(c) == <<c>>

JsonEscapeChar(c) ==
    IF c = "\"" THEN <<"\\", "\"">>
    ELSE IF c = "\\" THEN <<"\\", "\\">>
    ELSE IF c = "\n" THEN <<"\\", "n">>
    ELSE IF c = "\t" THEN <<"\\", "t">>
    ELSE IF c = "\r" THEN <<"\\", "r">>
    ELSE IF c = "\f" THEN <<"\\", "f">>
    ELSE <<c>>

RECURSIVE JsonEscape(_)
JsonEscape(str) ==
    IF str = <<>> THEN <<>>
    ELSE JsonEscapeChar(str[1]) \o JsonEscape(Tail(str))

JsonString(str) == <<"\"">> \o JsonEscape(str) \o <<"\"">>

RECURSIVE JsonMembers(_, _)
JsonMembers(map, order) ==
    IF order = <<>> THEN <<>>
    ELSE JsonString(order[1]) \o <<":">> \o JsonString(map[order[1]])
         \o (IF Len(order) > 1 THEN <<",">> ELSE <<>>)
         \o JsonMembers(map, Tail(order))

\* The orders in which a HashMap may hand out its keys.
KeyOrders(map) ==
    LET n == Cardinality(DOMAIN map)
    IN  {o \in [1..n -> DOMAIN map] : \A i, j \in 1..n : i # j => o[i] # o[j]}

\* impl fmt::Display for Cursor: serde_json::to_string(&self.0), the
\* entries in the iteration order of the HashMap.
Cursor_to_string(cur, order) == <<"{">> \o JsonMembers(cur, order) \o <<"}">>

JsonWhitespace == {" ", "\n", "\t", "\r"}

JsonControl == {"\n", "\t", "\r", "\f"}

RECURSIVE SkipWs(_, _)
SkipWs(s, i) ==
    IF i <= Len(s) /\ s[i] \in JsonWhitespace THEN SkipWs(s, i + 1) ELSE i

At(s, i) == IF i <= Len(s) THEN s[i] ELSE "EOF"

\* The character a backslash escape stands for, <<>> if it is no escape.
JsonUnescape(e) ==
    IF e \in {"\"", "\\", "/"} THEN <<e>>
    ELSE IF e = "n" THEN <<"\n">>
    ELSE IF e = "t" THEN <<"\t">>
    ELSE IF e = "r" THEN <<"\r">>
    ELSE IF e = "f" THEN <<"\f">>
    ELSE <<>>

\* The string whose opening quote is before position i.
RECURSIVE ParseStringBody(_, _, _)
ParseStringBody(s, i, acc) ==
    IF i > Len(s) THEN Err("EofWhileParsingString")
    ELSE IF s[i] = "\"" THEN Ok([str |-> acc, next |-> i + 1])
    ELSE IF s[i] = "\\"
    THEN IF JsonUnescape(At(s, i + 1)) = <<>> THEN Err("InvalidEscape")
         ELSE ParseStringBody(s, i + 2, acc \o JsonUnescape(At(s, i + 1)))
    ELSE IF s[i] \in JsonControl THEN Err("ControlCharacterWhileParsingString")
    ELSE ParseStringBody(s, i + 1, Append(acc, s[i]))

\* The entries of an object from position i, which holds the first
\* character of a key; a key met again replaces the earlier entry.
RECURSIVE ParseMembers(_, _, _)
ParseMembers(s, i, acc) ==
    IF At(s, i) # "\"" THEN Err("KeyMustBeAString")
    ELSE
    LET k == ParseStringBody(s, i + 1, <<>>)
    IN  IF ~k.ok THEN k
        ELSE
        LET colon == SkipWs(s, k.val.next)
        IN  IF At(s, colon) # ":" THEN Err("ExpectedColon")
            ELSE
            LET vstart == SkipWs(s, colon + 1)
            IN  IF At(s, vstart) # "\"" THEN Err("invalid type: expected a string")
                ELSE
                LET v == ParseStringBody(s, vstart + 1, <<>>)
                IN  IF ~v.ok THEN v
                    ELSE
                    LET acc2 == (k.val.str :> v.val.str) @@ acc
                        sep == SkipWs(s, v.val.next)
                    IN  IF At(s, sep) = ","
                        THEN ParseMembers(s, SkipWs(s, sep + 1), acc2)
                        ELSE IF At(s, sep) = "}"
                        THEN IF SkipWs(s, sep + 1) > Len(s) THEN Ok(acc2)
                             ELSE Err("TrailingCharacters")
                        ELSE Err("ExpectedObjectCommaOrEnd")

\* impl FromStr for Cursor: serde_json::from_str into HashMap<String, String>.
Cursor_from_str(s) ==
    LET open == SkipWs(s, 1)
    IN  IF At(s, open) # "{" THEN Err("invalid type: expected a map")
        ELSE
        LET first == SkipWs(s, open + 1)
        IN  IF At(s, first) = "}"
            THEN IF SkipWs(s, first + 1) > Len(s) THEN Ok(<<>>)
                 ELSE Err("TrailingCharacters")
            ELSE ParseMembers(s, first, <<>>)

(***************************************************************************)
(* The store: the query of index GSI1 that list_items_by_topic issues and  *)
(* the put that create_item issues.                                        *)
(***************************************************************************)

IndexKeyAttrs == {A_PK, A_SK, A_GSI1_PK, A_GSI1_SK}

\* The position of an item in GSI1: its index sort key, then its table key.
PosLt(a, b) ==
    IF a[A_GSI1_SK].v # b[A_GSI1_SK].v THEN StrLt(a[A_GSI1_SK].v, b[A_GSI1_SK].v)
    ELSE IF a[A_PK].v # b[A_PK].v THEN StrLt(a[A_PK].v, b[A_PK].v)
    ELSE StrLt(a[A_SK].v, b[A_SK].v)

\* The items of S in index order: the i-th is the one with i - 1 items
\* before it.
SortAsc(S) ==
    [i \in 1..Cardinality(S) |->
        CHOOSE x \in S : Cardinality({y \in S : PosLt(y, x)}) = i - 1]

Reverse_identity(s) == s

Reverse(s) == [i \in 1..Len(s) |-> s[Len(s) + 1 - i]]

\* How a put can go wrong: the service rejects it, or it applies it and
\* the acknowledgement never arrives (a timeout).
PutFaults == {"none", "rejected", "ack_lost"}

\* put_item: replaces the item with the same table key.  `table` is the
\* table afterwards.
Store_put(tbl, item, fault) ==
    LET written == {x \in tbl : ~(x[A_PK] = item[A_PK] /\ x[A_SK] = item[A_SK])}
                      \cup {item}
    IN  CASE fault = "none" -> [ok |-> TRUE, table |-> written]
          [] fault = "rejected" ->
                 [ok |-> FALSE, err |-> "ServiceError", table |-> tbl]
          [] fault = "ack_lost" ->
                 [ok |-> FALSE, err |-> "TimeoutError", table |-> written]

InGSI1(x) ==
    /\ {A_PK, A_SK, A_GSI1_PK, A_GSI1_SK} \subseteq DOMAIN x
    /\ \A a \in IndexKeyAttrs : x[a].t = "S"

KeyCondition_prefix_only(x, topic_pk, tag_pfx) ==
    BeginsWith(x[A_GSI1_SK].v, tag_pfx)

\* KeyConditionExpression "GSI1_PK = :topic_pk and begins_with(GSI1_SK, :tag_pfx)"
KeyCondition(x, topic_pk, tag_pfx) ==
    /\ x[A_GSI1_PK].v = topic_pk
    /\ BeginsWith(x[A_GSI1_SK].v, tag_pfx)

\* An ExclusiveStartKey the service accepts: exactly the key attributes of
\* the index, inside the queried key range.
StartKeyValid(esk, topic_pk, tag_pfx) ==
    /\ DOMAIN esk = IndexKeyAttrs
    /\ \A a \in IndexKeyAttrs : esk[a].t = "S"
    /\ KeyCondition(esk, topic_pk, tag_pfx)

AfterStartKey_inclusive(esk, x, scan_index_forward) ==
    IF ~IsSome(esk) THEN TRUE
    ELSE IF scan_index_forward THEN ~PosLt(x, esk[1])
    ELSE ~PosLt(esk[1], x)

\* .set_exclusive_start_key(exclusive_start_key): the scan resumes strictly
\* after the given position, in scan direction.
AfterStartKey(esk, x, scan_index_forward) ==
    IF ~IsSome(esk) THEN TRUE
    ELSE IF scan_index_forward THEN PosLt(esk[1], x)
    ELSE PosLt(x, esk[1])

\* Query: the matching items in index order (ascending when
\* scan_index_forward, else descending), after the exclusive start key, at
\* most `limit` of them.  When the limit is reached the service stops and
\* reports the key of the last item it evaluated.
\* `fault`: the request fails in transport or in the service.
Store_query(tbl, topic_pk, tag_pfx, scan_index_forward, limit, esk, fault) ==
    IF fault THEN Err("ServiceError")
    ELSE IF limit < 1 THEN Err("ValidationException")
    ELSE IF IsSome(esk) /\ ~StartKeyValid(esk[1], topic_pk, tag_pfx)
    THEN Err("ValidationException")
    ELSE
    LET matching == {x \in tbl : InGSI1(x) /\ KeyCondition(x, topic_pk, tag_pfx)}
        asc == SortAsc(matching)
        ordered == IF scan_index_forward THEN asc ELSE Reverse(asc)
        After(x) == AfterStartKey(esk, x, scan_index_forward)
        rest == SelectSeq(ordered, After)
        n == IF Len(rest) < limit THEN Len(rest) ELSE limit
        page == SubSeq(rest, 1, n)
    IN  Ok([items |-> page,
            last_evaluated_key |->
                IF n = limit
                THEN Some([a \in IndexKeyAttrs |-> page[n][a]])
                ELSE None])

(***************************************************************************)
(* data/api/submission.rs                                                  *)
(***************************************************************************)

DEFAULT_LIMIT == 30

ListItemsByTopicInput_new(topic) ==
    [topic |-> topic, limit |-> None, reverse |-> None, start_cursor |-> None]

\* ListItemsByTopicOutput::new
ListItemsByTopicOutput_new(items) == [items |-> items, next_cursor |-> None]

EffectiveLimit_default(input) == DEFAULT_LIMIT

\* let mut limit = 30; if let Some(lm) = input.limit { limit = lm; }
EffectiveLimit(input) ==
    IF IsSome(input.limit) THEN input.limit[1] ELSE DEFAULT_LIMIT

\* let mut reverse = false; if let Some(rv) = input.reverse { reverse = rv; }
EffectiveReverse(input) ==
    IF IsSome(input.reverse) THEN input.reverse[1] ELSE FALSE

\* if let Some(cur) = input.start_cursor { cur.try_into()? }
\* Ok(None) when no cursor was given.
ExclusiveStartKey(input) ==
    IF IsSome(input.start_cursor)
    THEN LET lk == Cursor_try_into(input.start_cursor[1])
         IN  IF lk.ok THEN Ok(Some(lk.val)) ELSE lk
    ELSE Ok(None)

NextCursor_never(lek) == Ok(None)

\* if let Some(lk) = results.last_evaluated_key() { Cursor::try_from(lk)? }
NextCursor(lek) ==
    IF IsSome(lek)
    THEN LET c == Cursor_try_from(lek[1])
         IN  IF c.ok THEN Ok(Some(c.val)) ELSE c
    ELSE Ok(None)

StoreFailure_empty_page(e, request) ==
    [result |-> "Ok", output |-> ListItemsByTopicOutput_new(<<>>),
     queries |-> <<request>>, lek |-> None]

\* .map_err(|e| Error::ServerError(e.to_string()))?
StoreFailure(e, request) ==
    [result |-> "ServerError", message |-> e, queries |-> <<request>>]

\* The answer of a store that reports the attributes in `numeric` of its
\* last-evaluated key as numbers (AttributeValue::N).
StoreAnswer(results, numeric) ==
    IF ~results.ok THEN results
    ELSE IF ~IsSome(results.val.last_evaluated_key) THEN results
    ELSE Ok([items |-> results.val.items,
             last_evaluated_key |->
                 Some([a \in IndexKeyAttrs |->
                          IF a \in numeric THEN AttrN(<<"1">>)
                          ELSE results.val.last_evaluated_key[1][a]])])

\* Client::list_items_by_topic against a store that answers with
\* StoreAnswer.  The result records, next to the value returned, the
\* requests sent to the store (`queries`) and the last-evaluated key the
\* store answered with (`lek`).
list_items_by_topic_answered(tbl, input, fault, numeric) ==
    LET lk == ExclusiveStartKey(input)
    IN  IF ~lk.ok
        THEN [result |-> "InvalidInputData", queries |-> <<>>]
        ELSE
        LET request == [topic_pk |-> TopicIndexKey_pk(input.topic),
                        tag_pfx |-> TopicIndexKey_sk_prefix,
                        scan_index_forward |-> EffectiveReverse(input),
                        limit |-> EffectiveLimit(input),
                        exclusive_start_key |-> lk.val]
            results == StoreAnswer(
                           Store_query(tbl, request.topic_pk, request.tag_pfx,
                                       request.scan_index_forward, request.limit,
                                       request.exclusive_start_key, fault),
                           numeric)
        IN  IF ~results.ok
            THEN StoreFailure(results.err, request)
            ELSE
            LET subms == Submission_from_items(results.val.items)
                lek == results.val.last_evaluated_key
                next_cursor == NextCursor(lek)
            IN  IF ~subms.ok
                THEN [result |-> "InvalidOutputData", queries |-> <<request>>]
                ELSE IF ~next_cursor.ok
                THEN [result |-> "InvalidOutputData", queries |-> <<request>>]
                ELSE [result |-> "Ok",
                      output |-> [ListItemsByTopicOutput_new(subms.val)
                                    EXCEPT !.next_cursor = next_cursor.val],
                      queries |-> <<request>>,
                      lek |-> lek]

\* Client::list_items_by_topic against the table's index GSI1, whose key
\* attributes are strings.
list_items_by_topic(tbl, input, fault) ==
    list_items_by_topic_answered(tbl, input, fault, {})

\* Client::create_item
create_item(tbl, subm, fault) ==
    LET item == Submission_to_item(subm)
        put == Store_put(tbl, item, fault)
    IN  IF ~put.ok
        THEN [result |-> "ServerError", message |-> Some(put.err),
              puts |-> <<item>>, table |-> put.table]
        ELSE [result |-> "Ok", message |-> None,
              puts |-> <<item>>, table |-> put.table]

(***************************************************************************)
(* The system: a table filled through create_item, then read through       *)
(* list_items_by_topic, one page after another.                            *)
(***************************************************************************)

MaxItems == 3
MaxLimit == 3

IdAlphabet == <<"a", "b", "c", "e", "h", "n">>
Ids == {<<IdAlphabet[i]>> : i \in 1..MaxItems}

Topic_news == <<"n", "e", "w", "s">>
Topic_other == <<"x">>
Topics == {Topic_news, Topic_other}

Scores == {I64(1), I64(5), I64(10)}

\* What a stored submission may carry: every score under "news", one under
\* the other topic.
TopicScores ==
    {<<Topic_news, sc>> : sc \in Scores} \cup {<<Topic_other, I64(5)>>}

Now == I64(1234)

LimitInputs == {None} \cup {Some(n) : n \in -1..MaxLimit}
ReverseInputs == {None, Some(FALSE), Some(TRUE)}

IdleResp == [op |-> "none"]
IdleScan == [phase |-> "idle"]
IdleEnc == [pc |-> "idle"]
IdleCodec == [pc |-> "idle"]

Init ==
    /\ table = {}
    /\ resp = IdleResp
    /\ scan = IdleScan
    /\ enc = IdleEnc
    /\ codec = IdleCodec

\* A caller builds a submission and stores it (the doc example of
\* create_item).  The table is filled before it is scanned.
CreateItem ==
    /\ scan.phase = "idle"
    /\ \E id \in Ids, ts \in TopicScores, fault \in PutFaults :
         LET topic == ts[1]
             score == ts[2]
             b == [SubmissionBuilder_new EXCEPT
                     !.id = Some(id), !.author_id = Some(<<"a">>),
                     !.topic = Some(topic), !.ranking_score = Some(score),
                     !.title = Some(<<"t">>), !.url = Some(<<>>),
                     !.text = Some(<<"x">>)]
             subm == SubmissionBuilder_build(b, id, Now).val
             r == create_item(table, subm, fault)
         IN  /\ table' = r.table
             /\ resp' = [op |-> "create_item", fault |-> fault,
                         r |-> [result |-> r.result, message |-> r.message,
                                requests |-> Len(r.puts),
                                put_attrs |-> {DOMAIN r.puts[i] : i \in 1..Len(r.puts)}]]
    /\ UNCHANGED <<scan, enc, codec>>

\* The first call of a scan: no start cursor.
ScanStart ==
    /\ scan.phase = "idle"
    /\ \E topic \in Topics, limit \in LimitInputs, reverse \in ReverseInputs,
          fault \in BOOLEAN :
         LET input == [ListItemsByTopicInput_new(topic) EXCEPT
                         !.limit = limit, !.reverse = reverse]
             r == list_items_by_topic(table, input, fault)
         IN  /\ resp' = [op |-> "list", input |-> input, fault |-> fault, r |-> r]
             /\ scan' = IF r.result = "Ok"
                        THEN [phase |-> IF r.output.next_cursor = None
                                        THEN "done" ELSE "paging",
                              input |-> input,
                              acc |-> r.output.items,
                              pages |-> 1]
                        ELSE [phase |-> "failed", input |-> input]
    /\ UNCHANGED <<table, enc, codec>>

\* A follow-up call: the same topic, limit and reverse, with the previous
\* call's next_cursor as start_cursor.
ScanNext ==
    /\ scan.phase = "paging"
    /\ \E fault \in BOOLEAN :
         LET input == [scan.input EXCEPT !.start_cursor = resp.r.output.next_cursor]
             r == list_items_by_topic(table, input, fault)
         IN  /\ resp' = [op |-> "list", input |-> input, fault |-> fault, r |-> r]
             /\ scan' = IF r.result = "Ok"
                        THEN [phase |-> IF r.output.next_cursor = None
                                        THEN "done" ELSE "paging",
                              input |-> scan.input,
                              acc |-> scan.acc \o r.output.items,
                              pages |-> scan.pages + 1]
                        ELSE [phase |-> "failed", input |-> scan.input]
    /\ UNCHANGED <<table, enc, codec>>

Next == CreateItem \/ ScanStart \/ ScanNext

Spec == Init /\ [][Next]_vars

(***************************************************************************)
(* The key encoder applied to pairs of scores (specification SpecKeys).    *)
(***************************************************************************)

MaxHi == 10

LoSamples == {0, 1, 9, 10, 99, 100, Limb - 1}

\* i64 values around every change of digit count up to 10^10 and beyond,
\* of both signs, and 19-digit values (WideHi * 10^9 + lo).
WideHi == 2000000000

ScoreSamples ==
    {I64Wide(neg, hi, lo) : neg \in BOOLEAN, hi \in 0..MaxHi, lo \in LoSamples}
        \cup {I64Wide(neg, WideHi, lo) : neg \in BOOLEAN, lo \in {0, Limb - 1}}

InitKeys ==
    /\ table = {}
    /\ resp = IdleResp
    /\ scan = IdleScan
    /\ codec = IdleCodec
    /\ \E s1 \in ScoreSamples, s2 \in ScoreSamples :
         enc = [pc |-> "input", s1 |-> s1, s2 |-> s2]

\* TopicIndexKey::sk of both scores.
EncodeTopicKeys ==
    /\ enc.pc = "input"
    /\ enc' = [pc |-> "topic_sk", s1 |-> enc.s1, s2 |-> enc.s2,
               k1 |-> TopicIndexKey_sk(enc.s1),
               k2 |-> TopicIndexKey_sk(enc.s2)]
    /\ UNCHANGED <<table, resp, scan, codec>>

\* SubmissionIndexKey::new of both scores, under one submission.
EncodeCommentKeys ==
    /\ enc.pc = "input"
    /\ \E sid \in Ids :
         enc' = [pc |-> "comment_sk", s1 |-> enc.s1, s2 |-> enc.s2,
                 k1 |-> SubmissionIndexKey_new(sid, enc.s1).sk,
                 k2 |-> SubmissionIndexKey_new(sid, enc.s2).sk]
    /\ UNCHANGED <<table, resp, scan, codec>>

\* comment::AuthorIndexKey::new of both values, taken as created_at
\* timestamps, under one author.
EncodeAuthorKeys ==
    /\ enc.pc = "input"
    /\ enc' = [pc |-> "author_sk", s1 |-> enc.s1, s2 |-> enc.s2,
               k1 |-> Comment_AuthorIndexKey_new(<<"p", "y", "0", "x">>, enc.s1).sk,
               k2 |-> Comment_AuthorIndexKey_new(<<"p", "y", "0", "x">>, enc.s2).sk]
    /\ UNCHANGED <<table, resp, scan, codec>>

\* Two submissions with the two scores are stored under one topic and the
\* topic is read in ascending index order (scan_index_forward = true).
ScanEncoded ==
    /\ enc.pc = "topic_sk"
    /\ LET subm(id, score) ==
               SubmissionBuilder_build(
                   [SubmissionBuilder_new EXCEPT
                      !.id = Some(id), !.author_id = Some(<<"a">>),
                      !.topic = Some(<<"n", "e", "w", "s">>),
                      !.ranking_score = Some(score),
                      !.title = Some(<<"t">>), !.url = Some(<<>>),
                      !.text = Some(<<"x">>)],
                   id, I64(1234)).val
           t1 == create_item({}, subm(<<"a">>, enc.s1), "none").table
           t2 == create_item(t1, subm(<<"b">>, enc.s2), "none").table
           r == list_items_by_topic(t2,
                    [topic |-> <<"n", "e", "w", "s">>, limit |-> None,
                     reverse |-> Some(TRUE), start_cursor |-> None], FALSE)
       IN  enc' = [pc |-> "scanned", s1 |-> enc.s1, s2 |-> enc.s2,
                   k1 |-> enc.k1, k2 |-> enc.k2,
                   order |-> [i \in 1..Len(r.output.items) |->
                                 r.output.items[i].ranking_score]]
    /\ UNCHANGED <<table, resp, scan, codec>>

NextKeys ==
    \/ EncodeTopicKeys
    \/ EncodeCommentKeys
    \/ EncodeAuthorKeys
    \/ ScanEncoded

SpecKeys == InitKeys /\ [][NextKeys]_vars

(***************************************************************************)
(* The key constructors, EntityId and the three builders applied to        *)
(* sampled inputs (specification SpecEntity).                              *)
(***************************************************************************)

IdInputs == {<<"a">>, <<"i", "d", "1">>, <<"x", "#", "y">>}

Author_py0x == <<"p", "y", "0", "x">>

NumSamples ==
    {I64(0), I64(5), I64(1234), I64Wide(FALSE, 9, Limb - 1),
     I64Wide(FALSE, 10, 0), I64Wide(TRUE, 0, 1)}

\* Values of Uuid::new_v4(): version nibble 4, variant nibble 8.
UuidSamples ==
    {Rep(c, 12) \o <<"4">> \o Rep(c, 3) \o <<"8">> \o Rep(c, 15) : c \in {"0", "f"}}

IndexNames ==
    {"topic", "submission", "submission_comment",
     "author_submission", "author_comment", "author_reply"}

\* PrimaryKey::new of the entity kind.
PrimaryKey_new(kind, id) ==
    CASE kind = EntityType_Submission -> Submission_PrimaryKey_new(id)
      [] kind = EntityType_Comment -> Comment_PrimaryKey_new(id)
      [] kind = EntityType_Reply -> Reply_PrimaryKey_new(id)

\* The constructor of the named secondary-index key.
IndexKey_new(index, group, comment_id, num) ==
    CASE index = "topic" -> TopicIndexKey_new(group, num)
      [] index = "submission" -> SubmissionIndexKey_new(group, num)
      [] index = "submission_comment" ->
             SubmissionCommentIndexKey_new(group, comment_id, num)
      [] index = "author_submission" -> Submission_AuthorIndexKey_new(group, num)
      [] index = "author_comment" -> Comment_AuthorIndexKey_new(group, num)
      [] index = "author_reply" -> Reply_AuthorIndexKey_new(group, num)

EncodePrimaryKey ==
    /\ enc.pc = "idle"
    /\ \E kind \in EntityTypes, id \in IdInputs :
         enc' = [pc |-> "primary_key", kind |-> kind, id |-> id,
                 key |-> PrimaryKey_new(kind, id)]
    /\ UNCHANGED <<table, resp, scan, codec>>

EncodeIndexKey ==
    /\ enc.pc = "idle"
    /\ \E index \in IndexNames, group \in IdInputs \cup {Topic_news, Author_py0x},
          comment_id \in IdInputs, num \in NumSamples :
         enc' = [pc |-> "index_key", index |-> index, group |-> group,
                 comment_id |-> comment_id, num |-> num,
                 key |-> IndexKey_new(index, group, comment_id, num)]
    /\ UNCHANGED <<table, resp, scan, codec>>

EntityIdFrom ==
    /\ enc.pc = "idle"
    /\ \E s \in IdInputs \cup {<<>>} :
         enc' = [pc |-> "entity_id_from", s |-> s, r |-> EntityId_from(s)]
    /\ UNCHANGED <<table, resp, scan, codec>>

EntityIdNew ==
    /\ enc.pc = "idle"
    /\ \E uuid \in UuidSamples :
         enc' = [pc |-> "entity_id_new", id |-> EntityId_new(uuid)]
    /\ UNCHANGED <<table, resp, scan, codec>>

Opt(S) == {None} \cup {Some(v) : v \in S}

Times == {I64(99), Now}

SubmissionBuilders ==
    [id : Opt({<<"a">>, <<"x", "#", "y">>}), author_id : Opt({Author_py0x}),
     topic : Opt({Topic_news}),
     ranking_score : Opt({I64(5), I64Wide(FALSE, 10, 0)}),
     title : Opt({<<"t">>}), url : Opt({<<>>}), text : Opt({<<"x">>}),
     n_votes : Opt({3}), n_comments : {None},
     created_at : Opt({I64(99)}), updated_at : Opt({I64(99)})]

CommentBuilders ==
    [id : Opt({<<"a">>, <<"x", "#", "y">>}), submission_id : Opt({<<"s">>}),
     author_id : Opt({Author_py0x}), topic : Opt({Topic_news}),
     ranking_score : Opt({I64(5), I64Wide(FALSE, 10, 0)}),
     text : Opt({<<"x">>}), n_likes : Opt({3}), n_replies : {None},
     created_at : Opt({I64(99)}), updated_at : Opt({I64(99)})]

ReplyBuilders ==
    [id : Opt({<<"a">>, <<"x", "#", "y">>}), submission_id : Opt({<<"s">>}),
     comment_id : Opt({<<"c">>, <<"x", "#", "y">>}),
     author_id : Opt({Author_py0x}), text : Opt({<<"x">>}),
     created_at : Opt({I64(99)}), updated_at : Opt({I64(99)})]

BuildSubmission ==
    /\ enc.pc = "idle"
    /\ \E b \in SubmissionBuilders, uuid \in UuidSamples, now \in Times :
         enc' = [pc |-> "built", kind |-> EntityType_Submission, b |-> b,
                 fresh_id |-> EntityId_new(uuid), now |-> now,
                 r |-> SubmissionBuilder_build(b, EntityId_new(uuid), now)]
    /\ UNCHANGED <<table, resp, scan, codec>>

BuildComment ==
    /\ enc.pc = "idle"
    /\ \E b \in CommentBuilders, uuid \in UuidSamples, now \in Times :
         enc' = [pc |-> "built", kind |-> EntityType_Comment, b |-> b,
                 fresh_id |-> EntityId_new(uuid), now |-> now,
                 r |-> CommentBuilder_build(b, EntityId_new(uuid), now)]
    /\ UNCHANGED <<table, resp, scan, codec>>

BuildReply ==
    /\ enc.pc = "idle"
    /\ \E b \in ReplyBuilders, uuid \in UuidSamples, now \in Times :
         enc' = [pc |-> "built", kind |-> EntityType_Reply, b |-> b,
                 fresh_id |-> EntityId_new(uuid), now |-> now,
                 r |-> ReplyBuilder_build(b, EntityId_new(uuid), now)]
    /\ UNCHANGED <<table, resp, scan, codec>>

\* Ids that share a head, with and without the separator.
PairIds == IdInputs \cup {<<"x">>, <<"x", "#">>, <<"S", "U", "B", "M", "S", "#", "a">>}

\* A record as far as the table identifies it: its primary key attributes.
KeyItem(key) == (A_PK :> AttrS(key.pk)) @@ (A_SK :> AttrS(key.sk))

\* Two entities get their primary keys and are put into the empty table one
\* after the other.
EncodePrimaryKeyPair ==
    /\ enc.pc = "idle"
    /\ \E k1 \in EntityTypes, k2 \in EntityTypes, id1 \in PairIds, id2 \in PairIds :
         LET key1 == PrimaryKey_new(k1, id1)
             key2 == PrimaryKey_new(k2, id2)
             first == Store_put({}, KeyItem(key1), "none").table
             both == Store_put(first, KeyItem(key2), "none").table
         IN  enc' = [pc |-> "primary_key_pair",
                     a |-> [kind |-> k1, id |-> id1, key |-> key1],
                     b |-> [kind |-> k2, id |-> id2, key |-> key2],
                     stored |-> Cardinality(both)]
    /\ UNCHANGED <<table, resp, scan, codec>>

\* A reply to comment comment_id of a submission gets its
\* submission-comment key; `matched` is whether the sort-key prefix that
\* selects the replies to comment c selects it.
GroupRepliesByComment ==
    /\ enc.pc = "idle"
    /\ \E c \in PairIds, comment_id \in PairIds, created_at \in Times :
         LET key == SubmissionCommentIndexKey_new(<<"s", "1">>, comment_id, created_at)
             pfx == REPLY_TAG \o HASH \o c \o HASH
         IN  enc' = [pc |-> "reply_group", c |-> EntityId_from(c),
                     comment_id |-> EntityId_from(comment_id),
                     created_at |-> created_at, key |-> key, prefix |-> pfx,
                     matched |-> BeginsWith(key.sk, pfx)]
    /\ UNCHANGED <<table, resp, scan, codec>>

NextEntity ==
    \/ EncodePrimaryKey
    \/ EncodePrimaryKeyPair
    \/ GroupRepliesByComment
    \/ EncodeIndexKey
    \/ EntityIdFrom
    \/ EntityIdNew
    \/ BuildSubmission
    \/ BuildComment
    \/ BuildReply

SpecEntity == Init /\ [][NextEntity]_vars


(***************************************************************************)
(* The cursor codec, from a raw position to a token and back, and the      *)
(* token handed to a list request (specification SpecCursor).              *)
(***************************************************************************)

\* Attribute values a raw position may hold: key-like text, text that
\* needs escaping or looks like JSON syntax, the empty string, a number.
CodecValues ==
    <<AttrS(SUBMISSION_TAG \o HASH \o <<"a">>),
      AttrS(<<"\"", ",">>),
      AttrS(<<"\\", "n">>),
      AttrS(<<"\n", "}">>),
      AttrS(<<>>),
      AttrN(<<"5">>)>>

KeyAttrSeq == <<A_PK, A_SK, A_GSI1_PK, A_GSI1_SK>>

KeyAttrIndex(k) == CHOOSE i \in 1..Len(KeyAttrSeq) : KeyAttrSeq[i] = k

\* Raw positions over every subset of the key attributes, the values
\* rotated through CodecValues.
SamplePositions ==
    {[k \in K |-> CodecValues[((KeyAttrIndex(k) + shift) % Len(CodecValues)) + 1]] :
        K \in SUBSET {A_PK, A_SK, A_GSI1_PK, A_GSI1_SK},
        shift \in 0..(Len(CodecValues) - 1)}

SampleSubmission(id, score) ==
    SubmissionBuilder_build(
        [SubmissionBuilder_new EXCEPT
           !.id = Some(id), !.author_id = Some(<<"a">>),
           !.topic = Some(Topic_news), !.ranking_score = Some(score),
           !.title = Some(<<"t">>), !.url = Some(<<>>), !.text = Some(<<"x">>)],
        id, Now).val

\* "news" holding three submissions scored 1, 5 and 10.
SampleTable ==
    LET t1 == create_item({}, SampleSubmission(<<"a">>, I64(5)), "none").table
        t2 == create_item(t1, SampleSubmission(<<"b">>, I64(10)), "none").table
    IN  create_item(t2, SampleSubmission(<<"c">>, I64(1)), "none").table

\* The positions of the stored items in GSI1.
StoredPositions == {[a \in IndexKeyAttrs |-> x[a]] : x \in SampleTable}

\* Tokens that no Cursor was rendered to: other JSON values, a value of
\* another type, a trailing comma, and a complete object written with
\* whitespace.  `json` tells whether the text is JSON at all.
ForeignTokens ==
    {[text |-> <<"n", "u", "l", "l">>, json |-> TRUE, keys |-> {}],
     [text |-> <<"[", "]">>, json |-> TRUE, keys |-> {}],
     [text |-> <<"{", "\"", "P", "K", "\"", ":", "1", "}">>,
      json |-> TRUE, keys |-> {A_PK}],
     [text |-> <<"{", "\"", "P", "K", "\"", ":", "\"", "a", "\"", ",", "}">>,
      json |-> FALSE, keys |-> {A_PK}],
     [text |-> <<" ", "{", " ", "\"", "P", "K", "\"", " ", ":", " ", "\"", "a",
                 "\"", " ", "}", "\n">>,
      json |-> TRUE, keys |-> {A_PK}]}

InitCursor ==
    /\ table = SampleTable
    /\ resp = IdleResp
    /\ scan = IdleScan
    /\ enc = IdleEnc
    /\ \/ \E raw \in SamplePositions \cup StoredPositions :
            codec = [pc |-> "raw", raw |-> raw]
       \/ \E t \in ForeignTokens :
            codec = [pc |-> "token", origin |-> "foreign", token |-> t.text,
                     json |-> t.json, keys |-> t.keys]

\* Cursor::try_from(raw position)
CursorFromRaw ==
    /\ codec.pc = "raw"
    /\ LET c == Cursor_try_from(codec.raw)
       IN  codec' = IF c.ok
                    THEN [pc |-> "cursor", raw |-> codec.raw, cur |-> c.val]
                    ELSE [pc |-> "raw_rejected", raw |-> codec.raw]
    /\ UNCHANGED <<table, resp, scan, enc>>

\* cursor.to_string()
CursorDisplay ==
    /\ codec.pc = "cursor"
    /\ \E order \in KeyOrders(codec.cur) :
         codec' = [pc |-> "token", origin |-> "rendered",
                   raw |-> codec.raw, cur |-> codec.cur,
                   token |-> Cursor_to_string(codec.cur, order),
                   json |-> TRUE, keys |-> DOMAIN codec.cur]
    /\ UNCHANGED <<table, resp, scan, enc>>

\* The token comes back cut short.
TruncateToken ==
    /\ codec.pc = "token"
    /\ codec.origin = "rendered"
    /\ \E n \in 0..(Len(codec.token) - 1) :
         codec' = [codec EXCEPT !.token = SubSeq(codec.token, 1, n),
                                !.origin = "truncated",
                                !.json = FALSE]
    /\ UNCHANGED <<table, resp, scan, enc>>

\* token.parse::<Cursor>()
CursorFromStr ==
    /\ codec.pc = "token"
    /\ LET c == Cursor_from_str(codec.token)
       IN  codec' = IF c.ok
                    THEN [codec EXCEPT !.pc = "parsed"] @@ [cur2 |-> c.val]
                    ELSE [codec EXCEPT !.pc = "parse_error"]
                         @@ [result |-> "serde_json::Error", queries |-> <<>>]
    /\ UNCHANGED <<table, resp, scan, enc>>

\* HashMap::try_from(cursor)
CursorIntoRaw ==
    /\ codec.pc = "parsed"
    /\ LET r == Cursor_try_into(codec.cur2)
       IN  codec' = [codec EXCEPT !.pc = IF r.ok THEN "raw2" ELSE "raw2_rejected"]
                    @@ [raw2 |-> IF r.ok THEN r.val ELSE <<>>]
    /\ UNCHANGED <<table, resp, scan, enc>>

\* The parsed cursor is the start_cursor of a list request.
ResumeList ==
    /\ codec.pc = "parsed"
    /\ \E limit \in {Some(1), Some(2)} :
         LET input == [ListItemsByTopicInput_new(Topic_news) EXCEPT
                         !.limit = limit, !.start_cursor = Some(codec.cur2)]
             r == list_items_by_topic(table, input, FALSE)
         IN  codec' = [codec EXCEPT !.pc = "listed"]
                      @@ [result |-> r.result, queries |-> r.queries, r |-> r]
    /\ UNCHANGED <<table, resp, scan, enc>>

NextCursorCodec ==
    \/ CursorFromRaw
    \/ CursorDisplay
    \/ TruncateToken
    \/ CursorFromStr
    \/ CursorIntoRaw
    \/ ResumeList

SpecCursor == InitCursor /\ [][NextCursorCodec]_vars

(***************************************************************************)
(* A table that other writers have written to as well, read through        *)
(* list_items_by_topic (specification SpecForeign).                        *)
(***************************************************************************)

MaxForeign == 2

BaseItem(id, score) == Submission_to_item(SampleSubmission(id, score))

Without(item, a) == [k \in DOMAIN item \ {a} |-> item[k]]

\* Items in the topic's index that do not read as a Submission: a field
\* missing, a number stored as a string, a negative u64, an unknown
\* entity_type, a timestamp that is no timestamp.
MalformedItems ==
    {Without(BaseItem(<<"e">>, I64(5)), A_title),
     [BaseItem(<<"h">>, I64(1)) EXCEPT ![A_ranking_score] = AttrS(<<"1">>)],
     [BaseItem(<<"n">>, I64(10)) EXCEPT ![A_n_votes] = AttrN(<<"-", "1">>)],
     [BaseItem(<<"m">>, I64(5)) EXCEPT ![A_entity_type] = AttrS(<<"p", "o", "s", "t">>)],
     [BaseItem(<<"t">>, I64(1)) EXCEPT ![A_created_at] = AttrS(<<"n", "o", "w">>)]}

\* An item whose id attribute is the empty string.
EmptyIdItem == [BaseItem(<<"z">>, I64(5)) EXCEPT ![A_id] = AttrS(<<>>)]

ForeignItems == MalformedItems \cup {EmptyIdItem}

InitForeign ==
    /\ \E C \in SUBSET ForeignItems :
          /\ Cardinality(C) <= MaxForeign
          /\ table = SampleTable \cup C
    /\ resp = IdleResp
    /\ scan = IdleScan
    /\ enc = IdleEnc
    /\ codec = IdleCodec

NextForeign == ScanStart \/ ScanNext

SpecForeign == InitForeign /\ [][NextForeign]_vars

(***************************************************************************)
(* A list call, other list calls in between, and the same call again       *)
(* (specification SpecRetry).                                              *)
(***************************************************************************)

MaxOthers == 1

StoredCursors == {Cursor_try_from(p).val : p \in StoredPositions}

RetryInputs ==
    {[topic |-> t, limit |-> l, reverse |-> rv, start_cursor |-> c] :
        t \in Topics, l \in {None, Some(1), Some(2)}, rv \in ReverseInputs,
        c \in Opt(StoredCursors)}

\* The calls made in between.
OtherInputs ==
    {[topic |-> Topic_news, limit |-> l, reverse |-> rv, start_cursor |-> c] :
        l \in {None, Some(1)}, rv \in {None, Some(TRUE)},
        c \in Opt({k \in StoredCursors : k[A_PK] = Submission_PrimaryKey_new(<<"a">>).pk})}

Store_after_query_consuming(tbl, queries) ==
    IF queries = <<>> THEN tbl
    ELSE {x \in tbl : ~KeyCondition(x, queries[1].topic_pk, queries[1].tag_pfx)}

\* The table after the requests a list call sent: query() reads only.
Store_after_query(tbl, queries) == tbl

InitRetry ==
    /\ table = SampleTable
    /\ resp = IdleResp
    /\ scan = IdleScan
    /\ enc = IdleEnc
    /\ codec = IdleCodec

\* The call that will be retried; the caller keeps a clone of its input.
FirstCall ==
    /\ scan.phase = "idle"
    /\ \E input \in RetryInputs, fault \in BOOLEAN :
         LET r == list_items_by_topic(table, input, fault)
         IN  /\ resp' = [op |-> "list", input |-> input, fault |-> fault, r |-> r]
             /\ scan' = [phase |-> "called", snapshot |-> table, input |-> input,
                         fault |-> fault, r |-> r, others |-> 0]
             /\ table' = Store_after_query(table, r.queries)
    /\ UNCHANGED <<enc, codec>>

\* Another list call, of any caller, in between.
OtherCall ==
    /\ scan.phase = "called"
    /\ scan.others < MaxOthers
    /\ \E input \in OtherInputs, fault \in BOOLEAN :
         LET r == list_items_by_topic(table, input, fault)
         IN  /\ resp' = [op |-> "list", input |-> input, fault |-> fault, r |-> r]
             /\ scan' = [scan EXCEPT !.others = @ + 1]
             /\ table' = Store_after_query(table, r.queries)
    /\ UNCHANGED <<enc, codec>>

\* The first call again, with the clone of its input.
RetryCall ==
    /\ scan.phase = "called"
    /\ \E fault \in BOOLEAN :
         LET r == list_items_by_topic(table, scan.input, fault)
         IN  /\ resp' = [op |-> "list", input |-> scan.input, fault |-> fault,
                         r |-> r]
             /\ scan' = [phase |-> "retried", snapshot |-> scan.snapshot,
                         input |-> scan.input, fault |-> scan.fault,
                         r |-> scan.r, others |-> scan.others]
             /\ table' = Store_after_query(table, r.queries)
    /\ UNCHANGED <<enc, codec>>

NextRetry == FirstCall \/ OtherCall \/ RetryCall

SpecRetry == InitRetry /\ [][NextRetry]_vars

(***************************************************************************)
(* list_items_by_topic given any cursor, against a store that may report   *)
(* a last-evaluated key with numeric attributes (specification             *)
(* SpecAnswer).                                                            *)
(***************************************************************************)

\* Cursor values no page handed out: the empty map, a position with an
\* attribute missing, one with an attribute the index does not have.
OddCursors ==
    {<<>>,
     (A_PK :> <<"q">>),
     (A_PK :> <<"q">>) @@ (A_SK :> <<"A">>) @@ (A_GSI1_PK :> <<"q">>)
        @@ (A_GSI1_SK :> <<"q">>) @@ (A_id :> <<>>)}

AnswerInputs ==
    {[topic |-> t, limit |-> l, reverse |-> rv, start_cursor |-> c] :
        t \in Topics, l \in {None, Some(1), Some(2)}, rv \in ReverseInputs,
        c \in Opt(StoredCursors \cup OddCursors)}

\* One call; `answer` is what the store sent back for its request.
ListAnswered ==
    /\ resp.op = "none"
    /\ \E input \in AnswerInputs, numeric \in SUBSET {A_SK, A_GSI1_SK} :
         LET r == list_items_by_topic_answered(table, input, FALSE, numeric)
             q == r.queries[1]
         IN  resp' = [op |-> "list_answered", input |-> input, r |-> r,
                      answer |->
                          IF r.queries = <<>> THEN None
                          ELSE Some(StoreAnswer(
                                   Store_query(table, q.topic_pk, q.tag_pfx,
                                               q.scan_index_forward, q.limit,
                                               q.exclusive_start_key, FALSE),
                                   numeric))]
    /\ UNCHANGED <<table, scan, enc, codec>>

NextAnswer == ListAnswered

SpecAnswer == InitRetry /\ [][NextAnswer]_vars

(***************************************************************************)
(* Properties of list_items_by_topic (specification Spec).                 *)
(***************************************************************************)

RespOk == resp.op = "list" /\ resp.r.result = "Ok"

RespItems == resp.r.output.items

RespNextCursor == resp.r.output.next_cursor

ScoreSeq(items) == [i \in 1..Len(items) |-> items[i].ranking_score]

\* One scan of the topic with a limit no page can reach.
UnboundedScan(topic, reverse) ==
    list_items_by_topic(table,
        [topic |-> topic, limit |-> Some(Cardinality(table) + 1),
         reverse |-> reverse, start_cursor |-> None], FALSE).output.items

\* C1: pagination completeness.  When a scan that passed each next_cursor
\* on as the next start_cursor has ended (next_cursor None), the pages
\* concatenated are exactly the items of one unbounded scan of the topic
\* with the same `reverse`: same items, same order, same count.
C1_PaginationComplete ==
    scan.phase = "done" =>
        scan.acc = UnboundedScan(scan.input.topic, scan.input.reverse)

\* A finished scan of three pages or more over three items, two of which
\* share a ranking score.
C1_Witness ==
    /\ scan.phase = "done"
    /\ scan.pages >= 3
    /\ Len(scan.acc) = 3
    /\ \E i, j \in 1..Len(scan.acc) :
         i # j /\ scan.acc[i].ranking_score = scan.acc[j].ranking_score

NonDecreasing(items) ==
    \A i \in 1..(Len(items) - 1) :
        ~StrLt(items[i + 1].topic_key.sk, items[i].topic_key.sk)

NonIncreasing(items) ==
    \A i \in 1..(Len(items) - 1) :
        ~StrLt(items[i].topic_key.sk, items[i + 1].topic_key.sk)

\* C3: reverse None or Some(false) returns the topic's items in ascending
\* sort-key order, Some(true) in descending order.
C3_ReverseDefaultsAscending ==
    RespOk =>
        IF resp.input.reverse = Some(TRUE)
        THEN NonIncreasing(RespItems)
        ELSE NonDecreasing(RespItems)

NewsItems == {x \in table : x[A_topic].v = Topic_news}

ScenarioTable ==
    /\ Cardinality(NewsItems) = 3
    /\ {I64_from_str(x[A_ranking_score].v) : x \in NewsItems}
         = {I64(5), I64(10), I64(1)}

\* C4: with "news" holding exactly three submissions scored 5, 10 and 1,
\* list(limit=2, reverse=false) returns [1, 5] and a next_cursor, and the
\* follow-up call with that cursor returns [10] and no next_cursor.
C4_EndToEnd ==
    ( /\ ScenarioTable
      /\ RespOk
      /\ resp.input.topic = Topic_news
      /\ resp.input.limit = Some(2)
      /\ resp.input.reverse = Some(FALSE) )
    => IF resp.input.start_cursor = None
       THEN ScoreSeq(RespItems) = <<I64(1), I64(5)>> /\ IsSome(RespNextCursor)
       ELSE ScoreSeq(RespItems) = <<I64(10)>> /\ RespNextCursor = None

\* C5: a limit Some(n) with n <= 0 fails with BadRequest and no query is
\* sent to the store.
C5_NonPositiveLimitBadRequest ==
    ( /\ resp.op = "list"
      /\ IsSome(resp.input.limit)
      /\ resp.input.limit[1] <= 0 )
    => (resp.r.result = "BadRequest" /\ resp.r.queries = <<>>)

\* Whether items of the topic lie beyond the returned page, in scan order.
MoreExist ==
    LET full == UnboundedScan(resp.input.topic, resp.input.reverse)
        last == RespItems[Len(RespItems)]
    IN  /\ Len(RespItems) > 0
        /\ \E i \in 1..(Len(full) - 1) : full[i] = last

\* The raw index position of a returned item.
RawPosition(subm) ==
    [a \in IndexKeyAttrs |-> Submission_to_item(subm)[a]]

CursorEncodesLastItem ==
    IsSome(RespNextCursor) =>
        /\ Len(RespItems) > 0
        /\ Cursor_try_into(RespNextCursor[1]).val
             = RawPosition(RespItems[Len(RespItems)])

C9_Original ==
    RespOk => /\ IsSome(RespNextCursor) <=> MoreExist
              /\ CursorEncodesLastItem

\* C9 (amended): next_cursor is present exactly when the store reported a
\* last-evaluated key, which it does whenever the page reached the limit:
\* a next_cursor is present whenever more results exist beyond the page, it
\* encodes the raw position of the last item of the page, and a page
\* without next_cursor is the final one.  A final page that is exactly full
\* still carries a next_cursor.
C9_NextCursorIffLastEvaluatedKey ==
    RespOk => /\ IsSome(RespNextCursor) <=> IsSome(resp.r.lek)
              /\ MoreExist => IsSome(RespNextCursor)
              /\ IsSome(RespNextCursor) =>
                    Len(RespItems) = EffectiveLimit(resp.input)
              /\ CursorEncodesLastItem

\* A follow-up page that has a next_cursor and more results beyond it.
C9_Witness ==
    /\ RespOk
    /\ IsSome(resp.input.start_cursor)
    /\ IsSome(RespNextCursor)
    /\ MoreExist

\* C10: a successful call for topic t with effective limit L returns at
\* most L items, each with GSI1 partition key TopicIndexKey::pk(t) and a
\* GSI1 sort key that begins with TopicIndexKey::sk_prefix(), each a
\* submission of topic t.
C10_PageWithinTopicAndLimit ==
    RespOk =>
        /\ Len(RespItems) <= EffectiveLimit(resp.input)
        /\ \A i \in 1..Len(RespItems) :
             /\ RespItems[i].topic_key.pk = TopicIndexKey_pk(resp.input.topic)
             /\ BeginsWith(RespItems[i].topic_key.sk, TopicIndexKey_sk_prefix)
             /\ RespItems[i].entity_type = EntityType_Submission
             /\ RespItems[i].topic = resp.input.topic

\* A full page of a topic that holds more items than the limit, from a
\* table that also holds an item of another topic.
C10_Witness ==
    /\ RespOk
    /\ Len(RespItems) = EffectiveLimit(resp.input)
    /\ MoreExist
    /\ \E x \in table : x[A_GSI1_PK].v # TopicIndexKey_pk(resp.input.topic)

(***************************************************************************)
(* Properties of the key encoder (specification SpecKeys).                 *)
(***************************************************************************)

\* 0 <= s <= 9,999,999,999
InTenDigitRange(s) == ~s.neg /\ s.hi <= 9

TenDigitsAfter(k, pfx) ==
    /\ BeginsWith(k, pfx)
    /\ Len(k) = Len(pfx) + 10
    /\ \A i \in (Len(pfx) + 1)..Len(k) : IsDigit(k[i])

EncPrefix ==
    IF enc.pc = "topic_sk" THEN TopicIndexKey_sk_prefix ELSE COMMENT_TAG \o HASH

\* C2: for scores 0 <= s1 < s2 <= 9,999,999,999 the sort key of s1 is
\* strictly smaller, byte by byte, than the sort key of s2, for submissions
\* (TopicIndexKey::sk) and comments (SubmissionIndexKey::new), and each sort
\* key is the kind prefix followed by exactly 10 digits.
C2_SortKeyMonotonic ==
    ( /\ enc.pc \in {"topic_sk", "comment_sk"}
      /\ InTenDigitRange(enc.s1)
      /\ InTenDigitRange(enc.s2)
      /\ I64Lt(enc.s1, enc.s2) )
    => /\ StrLt(enc.k1, enc.k2)
       /\ TenDigitsAfter(enc.k1, EncPrefix)
       /\ TenDigitsAfter(enc.k2, EncPrefix)

\* 9 against 9,999,999,999: the keys compare as the numbers do only because
\* of the padding.
C2_Witness ==
    /\ enc.pc = "topic_sk"
    /\ enc.s1 = I64(9)
    /\ enc.s2 = I64Wide(FALSE, 9, Limb - 1)
    /\ StrLt(enc.k1, enc.k2)

(***************************************************************************)
(* Properties of the cursor codec (specification SpecCursor).              *)
(***************************************************************************)

AfterFromStr == codec.pc \in {"parsed", "parse_error", "raw2", "raw2_rejected", "listed"}

\* A token that is not well-formed: cut short, or foreign text that is not
\* JSON.
MalformedToken ==
    codec.origin = "truncated" \/ (codec.origin = "foreign" /\ ~codec.json)

\* C6: a malformed cursor string supplied as the start_cursor of a list
\* request results in Error::InvalidInputData.
C6_MalformedTokenInvalidInputData ==
    (codec.pc \in {"parse_error", "listed"} /\ MalformedToken)
    => codec.result = "InvalidInputData"

\* C7: Cursor::from_str fails for every token that is syntactically invalid
\* and for every token that lacks one of the key fields PK, SK, GSI1_PK,
\* GSI1_SK, the empty object included.
C7_DecodeRejectsInvalidAndIncomplete ==
    (AfterFromStr /\ (~codec.json \/ ~(IndexKeyAttrs \subseteq codec.keys)))
    => codec.pc = "parse_error"

\* C8: cursor round trip.  A raw position of string attributes converts to
\* a Cursor; the token the Cursor is rendered to, in whatever order the map
\* hands out its entries, parses back to an equal Cursor, and that Cursor
\* converts back to a raw position equal to the original.
C8_CursorRoundTrip ==
    /\ codec.pc = "raw_rejected" => \E k \in DOMAIN codec.raw : codec.raw[k].t # "S"
    /\ (AfterFromStr /\ codec.origin = "rendered") =>
          /\ codec.pc \notin {"parse_error", "raw2_rejected"}
          /\ codec.cur2 = codec.cur
          /\ codec.pc = "raw2" => codec.raw2 = codec.raw

\* A round trip of a position with all four key attributes, one of them a
\* value that needs escaping.
C8_Witness ==
    /\ codec.pc = "raw2"
    /\ codec.origin = "rendered"
    /\ DOMAIN codec.raw = IndexKeyAttrs
    /\ \E k \in DOMAIN codec.raw : codec.raw[k] = AttrS(<<"\"", ",">>)
    /\ codec.raw2 = codec.raw

(***************************************************************************)
(* Properties of the reverse flag and of the page size requested.          *)
(***************************************************************************)

\* The same request with the reverse flag set to rv, against the table as
\* it stands.
ListWithReverse(input, rv) ==
    list_items_by_topic(table, [input EXCEPT !.reverse = Some(rv)], FALSE)

\* a read backwards is b.
Mirrored(a, b) ==
    /\ Len(a) = Len(b)
    /\ \A i \in 1..Len(a) : a[i] = b[Len(a) + 1 - i]

\* The first page of a scan whose limit covers every item of the table.
WholeTopicResponse ==
    /\ RespOk
    /\ resp.input.start_cursor = None
    /\ IsSome(resp.input.reverse)
    /\ EffectiveLimit(resp.input) >= Cardinality(table)

\* C11: for one snapshot of the store and a limit that covers the whole
\* topic, the items returned with reverse = false, read backwards, are the
\* items returned with reverse = true.
C11_ReverseMirrors ==
    WholeTopicResponse =>
        LET other == ListWithReverse(resp.input, ~resp.input.reverse[1])
        IN  /\ other.result = "Ok"
            /\ Mirrored(RespItems, other.output.items)

\* A whole-topic response of three items, two of them with the same score.
C11_Witness ==
    /\ WholeTopicResponse
    /\ resp.input.reverse = Some(FALSE)
    /\ Len(RespItems) = 3
    /\ \E i, j \in 1..3 :
          /\ i # j
          /\ RespItems[i].ranking_score = RespItems[j].ranking_score
    /\ \E i, j \in 1..3 : RespItems[i].ranking_score # RespItems[j].ranking_score

\* The request a list call sent to the store.
RespQuery == resp.r.queries[1]

\* C12: a list call with limit None asks the store for a page of exactly
\* 30; with limit Some(n), n > 0, it asks for exactly n.
C12_RequestedPageSize ==
    (resp.op = "list" /\ Len(resp.r.queries) = 1) =>
        /\ resp.input.limit = None => RespQuery.limit = 30
        /\ \A n \in 1..MaxLimit :
              resp.input.limit = Some(n) => RespQuery.limit = n

\* A follow-up call of a scan with limit 2, answered by the store.
C12_Witness ==
    /\ RespOk
    /\ resp.input.limit = Some(2)
    /\ IsSome(resp.input.start_cursor)
    /\ Len(resp.r.queries) = 1
    /\ RespQuery.limit = 2

(***************************************************************************)
(* Properties of the key constructors (specification SpecEntity).          *)
(***************************************************************************)

\* The 5-character tag the claims give each entity kind.
KindTag(kind) ==
    CASE kind = <<"s", "u", "b", "m", "i", "s", "s", "i", "o", "n">> ->
             <<"S", "U", "B", "M", "S">>
      [] kind = <<"c", "o", "m", "m", "e", "n", "t">> ->
             <<"C", "O", "M", "M", "T">>
      [] kind = <<"r", "e", "p", "l", "y">> ->
             <<"R", "E", "P", "L", "Y">>

\* C13: for every entity kind and every non-empty id, PrimaryKey::new(id)
\* has sort key exactly "A" and partition key exactly "<KIND_TAG>#<id>",
\* KIND_TAG being SUBMS, COMMT or REPLY.
C13_PrimaryKeyShape ==
    (enc.pc = "primary_key" /\ Len(enc.id) > 0) =>
        /\ enc.key.sk = <<"A">>
        /\ enc.key.pk = KindTag(enc.kind) \o <<"#">> \o enc.id

\* The primary key of the reply "id1".
C13_Witness ==
    /\ enc.pc = "primary_key"
    /\ enc.kind = EntityType_Reply
    /\ enc.id = <<"i", "d", "1">>
    /\ enc.key = [pk |-> <<"R", "E", "P", "L", "Y", "#", "i", "d", "1">>,
                  sk |-> <<"A">>]

\* The partition tag and the sort-key head the claims give each index.
PartitionTag(index) ==
    CASE index = "topic" -> <<"T", "O", "P", "I", "C">>
      [] index \in {"submission", "submission_comment"} -> <<"S", "U", "B", "M", "S">>
      [] index \in {"author_submission", "author_comment", "author_reply"} ->
             <<"A", "U", "T", "H", "R">>

SortHead(index, comment_id) ==
    CASE index \in {"topic", "author_submission"} -> <<"S", "U", "B", "M", "S", "#">>
      [] index \in {"submission", "author_comment"} -> <<"C", "O", "M", "M", "T", "#">>
      [] index = "author_reply" -> <<"R", "E", "P", "L", "Y", "#">>
      [] index = "submission_comment" ->
             <<"R", "E", "P", "L", "Y", "#">> \o comment_id \o <<"#">>

\* sfx is num written in decimal and zero-padded to a width of 10: at least
\* 10 characters, reading back as num, and exactly 10 digits when num is in
\* 0..9,999,999,999.
PaddedToTen(sfx, num) ==
    /\ Len(sfx) >= 10
    /\ I64_wellformed(sfx)
    /\ I64_from_str(sfx) = num
    /\ InTenDigitRange(num) => TenDigitsAfter(sfx, <<>>)

\* C14: every secondary-index key has partition "<GROUPING_TAG>#<grouping
\* value>" and sort "<KIND_TAG>#<numeric field zero-padded to 10 digits>":
\* ("TOPIC#<topic>", "SUBMS#<score>") for submissions by topic,
\* ("SUBMS#<submission id>", "COMMT#<score>") for comments by submission,
\* ("AUTHR#<author id>", "<KIND_TAG>#<created_at seconds>") for the author
\* indexes, and ("SUBMS#<submission id>",
\* "REPLY#<comment id>#<created_at seconds>") for replies.
C14_IndexKeyShape ==
    enc.pc = "index_key" =>
        LET head == SortHead(enc.index, enc.comment_id)
        IN  /\ enc.key.pk = PartitionTag(enc.index) \o <<"#">> \o enc.group
            /\ BeginsWith(enc.key.sk, head)
            /\ PaddedToTen(SubSeq(enc.key.sk, Len(head) + 1, Len(enc.key.sk)),
                           enc.num)

\* The key of a reply under submission "a" and comment "id1", created at
\* second 1234.
C14_Witness ==
    /\ enc.pc = "index_key"
    /\ enc.index = "submission_comment"
    /\ enc.num = I64(1234)
    /\ enc.key = [pk |-> <<"S", "U", "B", "M", "S", "#", "a">>,
                  sk |-> <<"R", "E", "P", "L", "Y", "#", "i", "d", "1", "#",
                           "0", "0", "0", "0", "0", "0", "1", "2", "3", "4">>]

(***************************************************************************)
(* The prefix queried against the prefix encoded (specification Spec).     *)
(***************************************************************************)

\* C15: for every ranking score the sort key of a submission's topic index
\* key starts with TopicIndexKey::sk_prefix(), "SUBMS#", and
\* list_items_by_topic filters with begins_with on that same value: the
\* prefix queried is a prefix of every sort key the encoder produces and of
\* every sort key stored.
C15_QueryPrefixIsKeyPrefix ==
    (resp.op = "list" /\ Len(resp.r.queries) = 1) =>
        /\ RespQuery.tag_pfx = <<"S", "U", "B", "M", "S", "#">>
        /\ \A s \in ScoreSamples :
              BeginsWith(TopicIndexKey_new(resp.input.topic, s).sk, RespQuery.tag_pfx)
        /\ \A x \in table : BeginsWith(x[A_GSI1_SK].v, RespQuery.tag_pfx)

\* A list call over a table of three stored submissions that returned
\* items.
C15_Witness ==
    /\ RespOk
    /\ Cardinality(table) = 3
    /\ Len(RespItems) >= 2
    /\ RespQuery.tag_pfx = TopicIndexKey_sk_prefix

(***************************************************************************)
(* Properties of the builders (specification SpecEntity).                  *)
(***************************************************************************)

Built == enc.pc = "built" /\ enc.r.ok

\* The keys the encoder derives from the attributes of record r.
FreshKeys(kind, r) ==
    CASE kind = EntityType_Submission ->
             <<Submission_PrimaryKey_new(r.id),
               TopicIndexKey_new(r.topic, r.ranking_score),
               Submission_AuthorIndexKey_new(r.author_id, r.created_at)>>
      [] kind = EntityType_Comment ->
             <<Comment_PrimaryKey_new(r.id),
               SubmissionIndexKey_new(r.submission_id, r.ranking_score),
               Comment_AuthorIndexKey_new(r.author_id, r.created_at)>>
      [] kind = EntityType_Reply ->
             <<Reply_PrimaryKey_new(r.id),
               SubmissionCommentIndexKey_new(r.submission_id, r.comment_id,
                                             r.created_at),
               Reply_AuthorIndexKey_new(r.author_id, r.created_at)>>

\* The keys record r stores.
StoredKeys(kind, r) ==
    CASE kind = EntityType_Submission -> <<r.primary_key, r.topic_key, r.author_key>>
      [] kind = EntityType_Comment -> <<r.primary_key, r.submission_key, r.author_key>>
      [] kind = EntityType_Reply ->
             <<r.primary_key, r.submission_comment_key, r.author_key>>

\* C16: materialized-key invariant.  Every Submission, Comment and Reply
\* that build() returns stores exactly the keys the key encoder derives
\* from the record's own attributes: the primary key from id, the topic or
\* submission key from the grouping ids and the ranking score or
\* created_at, the author key from author_id and created_at.
C16_MaterializedKeys ==
    Built =>
        /\ enc.r.val.entity_type = enc.kind
        /\ StoredKeys(enc.kind, enc.r.val) = FreshKeys(enc.kind, enc.r.val)

\* A reply built with a created_at that differs from the clock.
C16_Witness ==
    /\ Built
    /\ enc.kind = EntityType_Reply
    /\ enc.b.created_at = Some(I64(99))
    /\ enc.now = Now
    /\ enc.r.val.author_key.sk =
          <<"R", "E", "P", "L", "Y", "#", "0", "0", "0", "0", "0", "0", "0", "0", "9", "9">>

(***************************************************************************)
(* Store failures (specification Spec).                                    *)
(***************************************************************************)

\* C17: every failure of the store during list_items_by_topic or
\* create_item comes back as Error::ServerError carrying the store's error
\* message, and the call sends at most one request: a failed request is
\* not sent again and is not turned into a successful, empty result.
C17_StoreFailureIsServerError ==
    /\ resp.op = "list" =>
          /\ Len(resp.r.queries) <= 1
          /\ resp.fault =>
                /\ resp.r.result = "ServerError"
                /\ resp.r.message = "ServiceError"
                /\ Len(resp.r.queries) = 1
                /\ scan.phase = "failed"
          /\ resp.r.result = "ServerError" =>
                resp.r.message \in {"ServiceError", "ValidationException"}
    /\ resp.op = "create_item" =>
          /\ resp.r.requests <= 1
          /\ resp.fault # "none" =>
                /\ resp.r.result = "ServerError"
                /\ resp.r.message \in {Some("ServiceError"), Some("TimeoutError")}

\* The store fails on the follow-up call of a scan.
C17_Witness ==
    /\ resp.op = "list"
    /\ resp.fault
    /\ IsSome(resp.input.start_cursor)
    /\ resp.r.result = "ServerError"
    /\ Len(resp.r.queries) = 1

(***************************************************************************)
(* Reading a table other writers have written to (specification            *)
(* SpecForeign).                                                           *)
(***************************************************************************)

\* The raw page the store answered the response's request with.
RawPage ==
    Store_query(table, RespQuery.topic_pk, RespQuery.tag_pfx,
                RespQuery.scan_index_forward, RespQuery.limit,
                RespQuery.exclusive_start_key, FALSE).val.items

StoreAnswered ==
    /\ resp.op = "list"
    /\ ~resp.fault
    /\ resp.r.result # "ServerError"
    /\ Len(resp.r.queries) = 1

\* C18: if any raw item of the page the store returned does not
\* deserialize into a Submission, list_items_by_topic fails as a whole with
\* Error::InvalidOutputData: no output, hence no partial page of the
\* well-formed items, and no repaired item.
C18_MalformedItemFailsWholePage ==
    (StoreAnswered /\ \E i \in 1..Len(RawPage) : RawPage[i] \in MalformedItems)
    => /\ resp.r.result = "InvalidOutputData"
       /\ "output" \notin DOMAIN resp.r
       /\ scan.phase = "failed"

\* A follow-up page of two raw items, one well-formed and one not.
C18_Witness ==
    /\ StoreAnswered
    /\ IsSome(resp.input.start_cursor)
    /\ Len(RawPage) = 2
    /\ \E i, j \in 1..2 :
          /\ RawPage[i] \in MalformedItems
          /\ RawPage[j] \in SampleTable
    /\ resp.r.result = "InvalidOutputData"

(***************************************************************************)
(* Absent attributes (specification SpecEntity).                           *)
(***************************************************************************)

\* The builder fields the index keys are derived from, timestamps aside.
KeyFields(kind) ==
    CASE kind = EntityType_Submission -> {"author_id", "topic", "ranking_score"}
      [] kind = EntityType_Comment -> {"submission_id", "author_id", "ranking_score"}
      [] kind = EntityType_Reply -> {"submission_id", "comment_id", "author_id"}

AbsentKeyFields == {f \in KeyFields(enc.kind) : enc.b[f] = None}

\* C19 as stated: key derivation fails with an InvalidAttribute error when
\* the grouping value (topic, parent id or author id) or the numeric field
\* (ranking score or timestamp) is absent.
C19_Original ==
    (enc.pc = "built" /\ (AbsentKeyFields # {} \/ enc.b.created_at = None))
    => /\ ~enc.r.ok
       /\ enc.r.err.variant = "InvalidAttribute"

\* C19, amended: build() fails with EmptyData naming an absent field, and
\* returns no record and no key, when the grouping value (topic, parent id
\* or author id) or the ranking score is absent; an absent created_at is
\* no error: it is set to the current time before the keys are derived.
C19_AbsentFieldEmptyData ==
    enc.pc = "built" =>
        /\ AbsentKeyFields # {} =>
              /\ ~enc.r.ok
              /\ "val" \notin DOMAIN enc.r
              /\ enc.r.err.variant = "EmptyData"
              /\ enc.r.err.field \in AbsentKeyFields
        /\ (enc.r.ok /\ enc.b.created_at = None) =>
              enc.r.val.created_at = enc.now

\* A submission builder without a topic.
C19_Witness ==
    /\ enc.pc = "built"
    /\ enc.kind = EntityType_Submission
    /\ enc.b.topic = None
    /\ IsSome(enc.b.author_id)
    /\ IsSome(enc.b.ranking_score)
    /\ enc.r = [ok |-> FALSE, err |-> [variant |-> "EmptyData", field |-> "topic"]]

(***************************************************************************)
(* EntityId values read back from the store (specification SpecForeign).   *)
(***************************************************************************)

\* C20: every EntityId is a non-empty string, here the id of every
\* Submission that list_items_by_topic returns.
C20_EveryEntityIdNonEmpty ==
    RespOk => \A i \in 1..Len(RespItems) : Len(RespItems[i].id) > 0

(***************************************************************************)
(* Retrying a list call (specification SpecRetry).                         *)
(***************************************************************************)

Encoded == enc.pc \in {"topic_sk", "comment_sk", "author_sk", "scanned"}

\* The kind prefix of the sort keys of the state.
KeyHead ==
    IF enc.pc \in {"topic_sk", "scanned"} THEN <<"S", "U", "B", "M", "S", "#">>
    ELSE <<"C", "O", "M", "M", "T", "#">>

Suffix(k) == SubSeq(k, Len(KeyHead) + 1, Len(k))

\* Negative, of at most 9 digits.
SmallNegative(s) == s.neg /\ s.hi = 0

\* C22: the key encoder returns a key for every value, negative ranking
\* scores and pre-epoch timestamps included, and for negative values the
\* byte order of the sort keys is not the numeric order: for negative
\* s1 < s2 of up to 9 digits the key of s1 is the greater one, and a topic
\* read in ascending index order returns s2 before s1.
C22_NegativeValuesMisordered ==
    Encoded =>
        /\ BeginsWith(enc.k1, KeyHead) /\ Len(Suffix(enc.k1)) >= 10
        /\ BeginsWith(enc.k2, KeyHead) /\ Len(Suffix(enc.k2)) >= 10
        /\ (SmallNegative(enc.s1) /\ SmallNegative(enc.s2) /\ I64Lt(enc.s1, enc.s2))
           => /\ StrLt(enc.k2, enc.k1)
              /\ enc.pc = "scanned" => enc.order = <<enc.s2, enc.s1>>

\* Scores -10 and -9 stored and read back in ascending index order: -9
\* comes first.
C22_Witness ==
    /\ enc.pc = "scanned"
    /\ enc.s1 = I64Wide(TRUE, 0, 10)
    /\ enc.s2 = I64Wide(TRUE, 0, 9)
    /\ enc.order = <<enc.s2, enc.s1>>
    /\ StrLt(enc.k2, enc.k1)

(***************************************************************************)
(* Builder completeness (specification SpecEntity).                        *)
(***************************************************************************)

\* The required fields of each builder, in the order the claim gives.
RequiredFields(kind) ==
    CASE kind = EntityType_Submission ->
             <<"author_id", "topic", "ranking_score", "title", "url", "text">>
      [] kind = EntityType_Comment ->
             <<"submission_id", "author_id", "ranking_score", "text">>
      [] kind = EntityType_Reply ->
             <<"submission_id", "comment_id", "author_id", "text">>

UnsetPositions ==
    {i \in 1..Len(RequiredFields(enc.kind)) :
        enc.b[RequiredFields(enc.kind)[i]] = None}

FirstUnset ==
    RequiredFields(enc.kind)[CHOOSE i \in UnsetPositions :
                                 \A j \in UnsetPositions : i <= j]

\* C23: build() returns Err(EmptyData(f)) and no record whenever a required
\* field is unset, f being the first unset field in the builder's fixed
\* order, and returns Ok exactly when every required field is set; the
\* optional fields (id, counters, timestamps) never cause a failure.
C23_BuilderCompleteness ==
    enc.pc = "built" =>
        IF UnsetPositions = {}
        THEN enc.r.ok
        ELSE /\ ~enc.r.ok
             /\ "val" \notin DOMAIN enc.r
             /\ enc.r.err = [variant |-> "EmptyData", field |-> FirstUnset]

\* A comment builder with neither submission_id nor author_id and with
\* every optional field unset.
C23_Witness ==
    /\ enc.pc = "built"
    /\ enc.kind = EntityType_Comment
    /\ enc.b.submission_id = None
    /\ enc.b.author_id = None
    /\ IsSome(enc.b.ranking_score)
    /\ enc.b.id = None
    /\ enc.b.created_at = None
    /\ enc.r.err.field = "submission_id"

(***************************************************************************)
(* What create_item leaves in the store (specification Spec).              *)
(***************************************************************************)

\* A stored item that is a complete submission record: every key attribute
\* and every data attribute, readable back as a Submission.
CompleteRecord(item) ==
    /\ DOMAIN item = SubmissionStrAttrs \cup SubmissionNumAttrs
    /\ Submission_from_item(item).ok

\* A step in which create_item returned.
CreateItemReturned ==
    /\ resp'.op = "create_item"
    /\ <<resp, table>>' # <<resp, table>>

\* What create_item sends and when it answers Ok.
OnePutOfTheCompleteRecord ==
    /\ resp'.r.requests = 1
    /\ resp'.r.put_attrs = {SubmissionStrAttrs \cup SubmissionNumAttrs}
    /\ resp'.r.result = "InvalidInputData" => resp'.r.requests = 0
    /\ resp'.r.result = "Ok" => resp'.fault = "none"
    /\ resp'.r.result \in {"Ok", "ServerError"}

\* The claim as stated: after any failed create_item the store content is
\* unchanged.
C24_Original ==
    [][CreateItemReturned =>
          /\ OnePutOfTheCompleteRecord
          /\ resp'.r.result # "Ok" => table' = table]_vars

\* C24: an entity is never partially persisted: create_item sends exactly
\* one put, of the complete record (all key and data attributes together),
\* and answers Ok only when the store acknowledged it; after a failed
\* create_item the store is either unchanged or differs by that one
\* complete record (a put the store applied without the acknowledgement
\* arriving), and every stored item is a complete record.
C24_NeverPartiallyPersisted ==
    [][CreateItemReturned =>
          /\ OnePutOfTheCompleteRecord
          /\ \A it \in table' : CompleteRecord(it)
          /\ resp'.r.result = "Ok" =>
                \E it \in table' : table' \ {it} \subseteq table
          /\ resp'.r.result # "Ok" =>
                \/ table' = table
                \/ \E it \in table' :
                      /\ it \notin table
                      /\ table' \ {it} \subseteq table
                      /\ Cardinality(table') >= Cardinality(table)]_vars

\* A create_item that failed while its record reached the store, next to a
\* record stored earlier.
C24_Witness ==
    /\ resp.op = "create_item"
    /\ resp.fault = "ack_lost"
    /\ resp.r.result = "ServerError"
    /\ Cardinality(table) = 2
    /\ \A it \in table : CompleteRecord(it)

\* C25: primary keys are injective across the shared key space: two
\* (kind, id) pairs that differ in kind or in id get different
\* (partition, sort) pairs from PrimaryKey::new, so putting both records
\* into the single table leaves two records, also for a submission, a
\* comment and a reply with the same id string.
C25_PrimaryKeysInjective ==
    (enc.pc = "primary_key_pair"
        /\ (enc.a.kind # enc.b.kind \/ enc.a.id # enc.b.id)) =>
        /\ <<enc.a.key.pk, enc.a.key.sk>> # <<enc.b.key.pk, enc.b.key.sk>>
        /\ enc.stored = 2

\* A comment and a reply with the same id, one that contains '#'.
C25_Witness ==
    /\ enc.pc = "primary_key_pair"
    /\ enc.a.kind = EntityType_Comment
    /\ enc.b.kind = EntityType_Reply
    /\ enc.a.id = <<"x", "#", "y">>
    /\ enc.b.id = enc.a.id
    /\ enc.stored = 2

\* C26: reply grouping by comment is unambiguous: for every comment id c
\* accepted by EntityId::from, "REPLY#<c>#" is a prefix of a reply's sort key
\* if and only if the reply's comment_id is c, also when ids contain '#'.
C26_ReplyGroupingUnambiguous ==
    (enc.pc = "reply_group" /\ enc.c.ok /\ enc.comment_id.ok) =>
        (enc.matched <=> enc.comment_id.val = enc.c.val)

(***************************************************************************)
(* The numeric suffix over the whole of i64 (specification SpecKeys).      *)
(***************************************************************************)

\* Non-negative and above 9,999,999,999.
AboveTenDigits(s) == ~s.neg /\ s.hi >= 10

RECURSIVE LeadingDigit(_)
LeadingDigit(n) == IF n < 10 THEN n ELSE LeadingDigit(n \div 10)

RECURSIVE DigitCount(_)
DigitCount(n) == IF n < 10 THEN 1 ELSE 1 + DigitCount(n \div 10)

\* C27: the numeric sort suffix is total and injective over i64: every
\* value gets a key, two different values never get the same key, a value
\* above 9,999,999,999 is written with all of its digits (more than 10
\* characters), and for such a value the byte order of the keys is no longer
\* the numeric order: a 10-digit-range value with a greater leading digit
\* is numerically smaller and has the greater key.
C27_SuffixTotalAndInjective ==
    enc.pc \in {"topic_sk", "comment_sk"} =>
        /\ BeginsWith(enc.k1, KeyHead) /\ BeginsWith(enc.k2, KeyHead)
        /\ enc.s1 # enc.s2 => enc.k1 # enc.k2
        /\ AboveTenDigits(enc.s2) =>
              /\ Len(Suffix(enc.k2)) = DigitCount(enc.s2.hi) + 9
              /\ Len(Suffix(enc.k2)) > 10
              /\ enc.k2[Len(enc.k2)] = DigitChars[(enc.s2.lo % 10) + 1]
              /\ ( /\ ~enc.s1.neg
                   /\ enc.s1.hi < 10
                   /\ enc.s1.hi > LeadingDigit(enc.s2.hi) )
                 => /\ I64Lt(enc.s1, enc.s2)
                    /\ StrLt(enc.k2, enc.k1)

\* 9,999,999,999 against 10,000,000,000: eleven digits, and the smaller key.
C27_Witness ==
    /\ enc.pc = "comment_sk"
    /\ enc.s1 = I64Wide(FALSE, 9, Limb - 1)
    /\ enc.s2 = I64Wide(FALSE, 10, 0)
    /\ Len(Suffix(enc.k2)) = 11
    /\ StrLt(enc.k2, enc.k1)
    /\ enc.k1 # enc.k2

(***************************************************************************)
(* A Cursor holds strings only (specification SpecAnswer).                 *)
(***************************************************************************)

\* The store answered with a page and a last-evaluated key.
AnsweredWithKey ==
    /\ resp.op = "list_answered"
    /\ IsSome(resp.answer)
    /\ resp.answer[1].ok
    /\ IsSome(resp.answer[1].val.last_evaluated_key)

AnsweredKey == resp.answer[1].val.last_evaluated_key[1]

\* Every item of the answered page reads as a Submission.
AnsweredPageReads ==
    \A i \in 1..Len(resp.answer[1].val.items) :
        Submission_from_item(resp.answer[1].val.items[i]).ok

\* C28: a Cursor holds string-valued attributes only.  When the store
\* returns a last-evaluated key with an attribute that is not a string,
\* list_items_by_topic fails with Error::InvalidOutputData and returns no
\* item, although every item of the page deserialized; and every Cursor
\* converts to an exclusive-start key (each attribute as a string) without
\* error, so no Cursor value makes list_items_by_topic return
\* InvalidInputData.
C28_CursorHoldsStringsOnly ==
    resp.op = "list_answered" =>
        /\ (AnsweredWithKey /\ \E a \in DOMAIN AnsweredKey : AnsweredKey[a].t # "S")
           => /\ resp.r.result = "InvalidOutputData"
              /\ "output" \notin DOMAIN resp.r
        /\ (AnsweredWithKey /\ AnsweredPageReads
               /\ \A a \in DOMAIN AnsweredKey : AnsweredKey[a].t = "S")
           => /\ resp.r.result = "Ok"
              /\ IsSome(resp.r.output.next_cursor)
              /\ \A a \in DOMAIN AnsweredKey :
                    resp.r.output.next_cursor[1][a] = AnsweredKey[a].v
        /\ resp.r.result # "InvalidInputData"
        /\ IsSome(resp.input.start_cursor) =>
              /\ Len(resp.r.queries) = 1
              /\ IsSome(resp.r.queries[1].exclusive_start_key)
              /\ LET esk == resp.r.queries[1].exclusive_start_key[1]
                     cur == resp.input.start_cursor[1]
                 IN  /\ DOMAIN esk = DOMAIN cur
                     /\ \A k \in DOMAIN cur : esk[k] = [t |-> "S", v |-> cur[k]]

\* A follow-up page of one readable item whose last-evaluated key carries a
\* number: the call fails and the item is lost.
C28_Witness ==
    /\ AnsweredWithKey
    /\ IsSome(resp.input.start_cursor)
    /\ Len(resp.answer[1].val.items) = 1
    /\ AnsweredPageReads
    /\ AnsweredKey[A_GSI1_SK].t = "N"
    /\ resp.r.result = "InvalidOutputData"

====
